---------------------------- MODULE Spec2Model ----------------------------
(***************************************************************************)
(* Storage engine of huanguang-z/DBMS: slotted page, buffer pool with      *)
(* Clock / LRU-K replacer, disk manager, segment manager, free-space       *)
(* manager and table heap, modelled from the C++ sources under             *)
(* src/Storage.                                                            *)
(***************************************************************************)
EXTENDS Integers, Naturals, Sequences, FiniteSets, TLC

VARIABLES
  mu,         \* SegmentManager::mu_: the thread that holds it (0: nobody)
  segs,       \* SegmentManager::segs_: seg id -> Segment (disk, free_list)
  iter,       \* a TableIterator: pid_, slot_, end_, current_, and the rows it yielded
  pg,         \* SlottedPage: the page a stand-alone SlottedPage adapter works on
  frames,     \* BufferPoolManager::Impl::frames (page_id, pin_count, dirty, data)
  table,      \* BufferPoolManager::Impl::table  (page_id -> frame_id)
  free_list,  \* BufferPoolManager::Impl::free_list
  replacer,   \* ClockReplacer / LruKReplacer state
  now,        \* std::chrono::steady_clock reading used by LruKReplacer::Touch
  stats,      \* BufferStats
  disk,       \* the segment file: sequence of pages, page id = index - 1
  fsm,        \* FreeSpaceManager: bins_, pid2bin_, pid2free_
  sm_free,    \* SegmentManager::Segment::free_list
  last,       \* the last call made, its arguments and what it returned
  durable,    \* per page: content at its last unpin(dirty=true) (none: "none")
  io_failed,  \* number of calls in which a system call has failed so far
  steps       \* number of calls made so far

vars == <<mu, segs, iter, pg, frames, table, free_list, replacer, now, stats, disk, fsm,
          sm_free, last, durable, io_failed, steps>>

---------------------------------------------------------------------------
(* Program constants *)

\* sizeof(PageHeader): u32 + pad + u64 + 3*u16 + pad + 2*u32
HeaderSize == 32
\* sizeof(Slot): two uint16_t
SlotSize == 4
\* uint16_t range
U16Mod == 65536
\* static_cast<page_id_t>(-1); kept as -1, no page id of the model reaches it
kInvalidPageId == -1
kPageFormatVersion == 1

(* Bounds of the model *)

\* page size in bytes (a constructor parameter of every component)
PageSize == 48
\* longest record handed to SlottedPage directly
MaxRecLen == 3
\* number of calls in a run of the page-level specification
MaxPageOps == 5

\* frames of the buffer pool (and capacity of its replacer)
NumFrames == 2
\* pages the segment file may grow to
MaxPages == 3
\* largest page_lsn a holder of a pinned frame writes into the page header
MaxLsn == 1
\* number of BufferPoolManager calls in a run
MaxOps == 5
\* number of calls in a run in which a system call (pread, pwrite,
\* ftruncate) fails
MaxIoFailures == 1
\* TableHeap calls made in a run of SpecHeap
MaxHeapOps == 3
\* the system calls of one TableHeap call among which the failing one is drawn
MaxSysCalls == 3
\* capacity of the replacer checked on its own
RepFrames == 3
\* replacer calls made in a run of SpecRep
MaxRepOps == 5

U16(x) == x % U16Mod

\* TableIterator(): the default-constructed iterator, at End; out, which the
\* class does not have, is the sequence of rows it yielded so far
NoIter ==
  [started |-> FALSE, pid |-> 0, slot |-> 0, end |-> TRUE,
   cur |-> [rid |-> [page_id |-> 0, slot |-> 0], bytes |-> <<>>], out |-> <<>>]

FrameIds == 0..(NumFrames - 1)
PageIds == 0..(MaxPages - 1)

\* Byte values records are made of; 0 is what memset leaves
Fills == {1, 2}

\* A caller's buffer: `size` bytes, byte i (1-based) alternating fill, 3-fill
RecByte(t, i) == IF i % 2 = 1 THEN t.fill ELSE 3 - t.fill

RecBytes(t, len) == [i \in 1..len |-> RecByte(t, i)]

BodyOffsets == HeaderSize..(PageSize - 1)

---------------------------------------------------------------------------
(* SlottedPage *)

\* A page as memset(0) leaves it (also a tail page grown by ftruncate)
ZeroPage ==
  [page_id |-> 0, page_lsn |-> 0, slot_count |-> 0, free_off |-> 0,
   free_size |-> 0, format_version |-> 0, slots |-> <<>>,
   body |-> [o \in BodyOffsets |-> 0]]

InitNew(pid) ==
  [ZeroPage EXCEPT !.page_id = pid,
                   !.free_off = U16(HeaderSize),
                   !.free_size = U16(PageSize - HeaderSize),
                   !.format_version = kPageFormatVersion]

\* memmove(page + dst, page + src, len) inside the page body
MemMoveNone(body, dst, src, len) == body

MemMove(body, dst, src, len) ==
  [o \in BodyOffsets |->
     IF o >= dst /\ o < dst + len /\ (src + (o - dst)) \in BodyOffsets
     THEN body[src + (o - dst)] ELSE body[o]]

\* memmove(page + dst, rec, len) from a caller's buffer
MemWrite(body, dst, rec, len) ==
  [o \in BodyOffsets |->
     IF o >= dst /\ o < dst + len THEN RecByte(rec, o - dst + 1) ELSE body[o]]

LiveSlots(p) == {i \in 1..Len(p.slots) : p.slots[i].len # 0}

\* std::sort of the live entries by offset (ties, which the layout never
\* produces, by slot id)
RECURSIVE SortLives(_, _)
SortLives(p, S) ==
  IF S = {} THEN <<>>
  ELSE LET m == CHOOSE i \in S : \A j \in S :
                  \/ p.slots[i].off < p.slots[j].off
                  \/ (p.slots[i].off = p.slots[j].off /\ i <= j)
       IN <<m>> \o SortLives(p, S \ {m})

RECURSIVE CompactLoop(_, _, _, _)
CompactLoop(lives, k, cur, p) ==
  IF k > Len(lives) THEN [cur |-> cur, p |-> p]
  ELSE LET i == lives[k]
           e == p.slots[i]
       IN IF e.off < HeaderSize \/ e.off + e.len > PageSize
          THEN CompactLoop(lives, k + 1, cur, p)
          ELSE CompactLoop(lives, k + 1, U16(cur + e.len),
                 [p EXCEPT !.body = MemMove(p.body, cur, e.off, e.len),
                           !.slots[i].off = cur])

CompactNoMove(p) ==
  [p EXCEPT !.free_off = HeaderSize,
            !.free_size = U16(PageSize - HeaderSize - p.slot_count * SlotSize)]

CompactLoseDirEnd(p, r) ==
  [r.p EXCEPT !.free_off = r.cur,
              !.free_size = U16(PageSize - r.cur)]

CompactLoseDir(p) ==
  CompactLoseDirEnd(p, CompactLoop(SortLives(p, LiveSlots(p)), 1, U16(HeaderSize), p))

\* the header update that ends SlottedPage::Compact; r: the move loop's result
CompactEnd(p, r) ==
  [r.p EXCEPT !.free_off = r.cur,
              !.free_size = U16(PageSize - r.cur - p.slot_count * SlotSize)]

\* SlottedPage::Compact
Compact(p) ==
  CompactEnd(p, CompactLoop(SortLives(p, LiveSlots(p)), 1, U16(HeaderSize), p))

\* the tombstone scan without its break: the last tombstone in slot order
LastTombstone(p) ==
  IF \E i \in 1..p.slot_count : p.slots[i].len = 0
  THEN CHOOSE i \in 1..p.slot_count :
         p.slots[i].len = 0 /\ \A j \in (i + 1)..p.slot_count : p.slots[j].len # 0
  ELSE 0

\* first tombstone in slot order, 0 if none (slot ids here are 1-based
\* positions in `slots`; the program's slot id is the position minus 1)
FirstTombstone(p) ==
  IF \E i \in 1..p.slot_count : p.slots[i].len = 0
  THEN CHOOSE i \in 1..p.slot_count :
         p.slots[i].len = 0 /\ \A j \in 1..(i - 1) : p.slots[j].len # 0
  ELSE 0

\* the directory entry of the record written at rec_off: the reused
\* tombstone, else a new slot at the end of the directory
PlaceSlot(q, rec_off, len, reuse) ==
  IF reuse # 0
  THEN [p |-> [q EXCEPT !.slots[reuse] = [off |-> rec_off, len |-> len]],
        slot |-> reuse - 1]
  ELSE [p |-> [q EXCEPT !.slot_count = U16(q.slot_count + 1),
                        !.free_size = U16(q.free_size - SlotSize),
                        !.slots = Append(q.slots, [off |-> rec_off, len |-> len])],
        slot |-> q.slot_count]

\* Writes the record at free_off and fills / appends the directory entry
PlaceRecord(p, rec, len, reuse) ==
  PlaceSlot([p EXCEPT !.body = MemWrite(p.body, p.free_off, rec, len),
                      !.free_off = U16(p.free_off + len),
                      !.free_size = U16(p.free_size - len)],
            p.free_off, len, reuse)

\* the result of a successful SlottedPage::Insert; r: what PlaceRecord made
InsertPlaced(r, compacted, before, after) ==
  [status |-> "OK", p |-> r.p, slot |-> r.slot,
   compacted |-> compacted, before |-> before, after |-> after]

\* SlottedPage::Insert after its Compact() call; c: the compacted page
InsertCompacted(p, c, rec, len, reuse, need) ==
  IF c.free_size < need
  THEN [status |-> "OutOfRange", p |-> c, slot |-> 0,
        compacted |-> TRUE, before |-> p, after |-> c]
  ELSE InsertPlaced(PlaceRecord(c, rec, len, reuse), TRUE, p, c)

\* SlottedPage::Insert once the tombstone scan gave reuse (0: none)
InsertWithSlot(p, rec, len, reuse, need) ==
  IF p.free_size < need
  THEN InsertCompacted(p, Compact(p), rec, len, reuse, need)
  ELSE InsertPlaced(PlaceRecord(p, rec, len, reuse), FALSE, p, p)

\* SlottedPage::Insert(rec, len, out_slot); result: status, page, slot,
\* whether Compact ran and the page right before / after it
SlottedInsert(p, rec, len) ==
  IF len = 0
  THEN [status |-> "InvalidArgument", p |-> p, slot |-> 0,
        compacted |-> FALSE, before |-> p, after |-> p]
  ELSE InsertWithSlot(p, rec, len, FirstTombstone(p),
                      len + (IF FirstTombstone(p) # 0 THEN 0 ELSE SlotSize))

\* SlottedPage::Get(slot, out_ptr, out_len): the view as a byte sequence
SlottedGet(p, slot) ==
  IF slot >= p.slot_count THEN [status |-> "NotFound", bytes |-> <<>>]
  ELSE LET s == p.slots[slot + 1]
       IN IF s.len = 0 THEN [status |-> "NotFound", bytes |-> <<>>]
          ELSE IF s.off < HeaderSize \/ s.off + s.len > PageSize
               THEN [status |-> "Corruption", bytes |-> <<>>]
               ELSE [status |-> "OK",
                     bytes |-> [i \in 1..s.len |-> p.body[s.off + i - 1]]]

UpdateInPlaceKeepLen(p, slot, rec, len) ==
  [p EXCEPT !.body = MemWrite(p.body, p.slots[slot + 1].off, rec, len)]

UpdateInPlace(p, slot, rec, len) ==
  [p EXCEPT !.body = MemWrite(p.body, p.slots[slot + 1].off, rec, len),
            !.slots[slot + 1].len = len]

UpdateAppendNoHdr(p, slot, rec, len) ==
  [p EXCEPT !.body = MemWrite(p.body, p.free_off, rec, len),
            !.slots[slot + 1] = [off |-> p.free_off, len |-> len]]

UpdateAppend(p, slot, rec, len) ==
  [p EXCEPT !.body = MemWrite(p.body, p.free_off, rec, len),
            !.slots[slot + 1] = [off |-> p.free_off, len |-> len],
            !.free_off = U16(p.free_off + len),
            !.free_size = U16(p.free_size - len)]

\* Update that gives up the old copy before it knows the new one fits
UpdateCompactedDropsOld(p, c, slot, rec, len) ==
  IF c.free_size < len
  THEN [status |-> "OutOfRange", p |-> [c EXCEPT !.slots[slot + 1].len = 0],
        compacted |-> TRUE, before |-> p, after |-> c]
  ELSE [status |-> "OK", p |-> UpdateAppend(c, slot, rec, len),
        compacted |-> TRUE, before |-> p, after |-> c]

\* SlottedPage::Update after its Compact() call; c: the compacted page
UpdateCompacted(p, c, slot, rec, len) ==
  IF c.free_size < len
  THEN [status |-> "OutOfRange", p |-> c,
        compacted |-> TRUE, before |-> p, after |-> c]
  ELSE [status |-> "OK", p |-> UpdateAppend(c, slot, rec, len),
        compacted |-> TRUE, before |-> p, after |-> c]

\* SlottedPage::Update(slot, rec, len), rec non-null
SlottedUpdate(p, slot, rec, len) ==
  IF slot >= p.slot_count \/ p.slots[slot + 1].len = 0
  THEN [status |-> "NotFound", p |-> p,
        compacted |-> FALSE, before |-> p, after |-> p]
  ELSE IF len <= p.slots[slot + 1].len
  THEN [status |-> "OK", p |-> UpdateInPlace(p, slot, rec, len),
        compacted |-> FALSE, before |-> p, after |-> p]
  ELSE IF p.free_size < len
  THEN UpdateCompacted(p, Compact(p), slot, rec, len)
  ELSE [status |-> "OK", p |-> UpdateAppend(p, slot, rec, len),
        compacted |-> FALSE, before |-> p, after |-> p]

\* Erase that hands the record's bytes back to free_size at once
SlottedEraseReclaiming(p, slot) ==
  IF slot >= p.slot_count THEN [status |-> "NotFound", p |-> p]
  ELSE IF p.slots[slot + 1].len = 0 THEN [status |-> "NotFound", p |-> p]
  ELSE [status |-> "OK",
        p |-> [p EXCEPT !.slots[slot + 1].len = 0,
                        !.free_size = U16(p.free_size + p.slots[slot + 1].len)]]

\* SlottedPage::Erase(slot)
SlottedErase(p, slot) ==
  IF slot >= p.slot_count THEN [status |-> "NotFound", p |-> p]
  ELSE IF p.slots[slot + 1].len = 0 THEN [status |-> "NotFound", p |-> p]
  ELSE [status |-> "OK", p |-> [p EXCEPT !.slots[slot + 1].len = 0]]

---------------------------------------------------------------------------
(* Replacers *)

\* ClockReplacer(capacity) / LruKReplacer(capacity, k = 2); one record holds
\* the fields of whichever class `kind` names
NewReplacerCap(kind, capacity) ==
  [kind |-> kind,
   cap |-> capacity,
   present |-> [f \in 0..(capacity - 1) |-> FALSE],
   ref |-> [f \in 0..(capacity - 1) |-> FALSE],
   hand |-> 0,
   last1 |-> [f \in 0..(capacity - 1) |-> 0],
   last2 |-> [f \in 0..(capacity - 1) |-> 0]]

\* the replacer the pool makes: one entry per frame
NewReplacer(kind) == NewReplacerCap(kind, NumFrames)

ReplacerPinNoop(rep, fid) == rep

\* ClockReplacer::Pin / LruKReplacer::Pin
ReplacerPin(rep, fid) ==
  IF fid < 0 \/ fid >= rep.cap THEN rep
  ELSE IF rep.kind = "clock"
  THEN [rep EXCEPT !.present[fid] = FALSE, !.ref[fid] = FALSE]
  ELSE [rep EXCEPT !.present[fid] = FALSE]

\* an Unpin that registers no candidate
ReplacerUnpinNoop(rep, fid, t) == rep

\* ClockReplacer::Unpin / LruKReplacer::Unpin (with Touch reading the clock
\* as t)
ReplacerUnpin(rep, fid, t) ==
  IF fid < 0 \/ fid >= rep.cap THEN rep
  ELSE IF rep.kind = "clock"
  THEN [rep EXCEPT !.present[fid] = TRUE, !.ref[fid] = TRUE]
  ELSE [rep EXCEPT !.present[fid] = TRUE,
                   !.last2[fid] = rep.last1[fid],
                   !.last1[fid] = t]

\* the sweep with a limit of cap_ steps, a single lap
RECURSIVE ClockSweepOneLap(_, _)
ClockSweepOneLap(rep, scanned) ==
  IF scanned >= rep.cap THEN [found |-> FALSE, fid |-> -1, rep |-> rep]
  ELSE LET h == rep.hand
           nxt == (h + 1) % rep.cap
       IN IF rep.present[h] /\ ~rep.ref[h]
          THEN [found |-> TRUE, fid |-> h,
                rep |-> [rep EXCEPT !.present[h] = FALSE, !.ref[h] = FALSE,
                                    !.hand = nxt]]
          ELSE ClockSweepOneLap([rep EXCEPT !.ref[h] = IF rep.present[h] THEN FALSE ELSE @,
                                            !.hand = nxt],
                                scanned + 1)

\* the while loop of ClockReplacer::Victim
RECURSIVE ClockSweep(_, _)
ClockSweep(rep, scanned) ==
  IF scanned >= rep.cap * 2 THEN [found |-> FALSE, fid |-> -1, rep |-> rep]
  ELSE LET h == rep.hand
           nxt == (h + 1) % rep.cap
       IN IF rep.present[h] /\ ~rep.ref[h]
          THEN [found |-> TRUE, fid |-> h,
                rep |-> [rep EXCEPT !.present[h] = FALSE, !.ref[h] = FALSE,
                                    !.hand = nxt]]
          ELSE ClockSweep([rep EXCEPT !.ref[h] = IF rep.present[h] THEN FALSE ELSE @,
                                      !.hand = nxt],
                          scanned + 1)

\* the key of LruKReplacer::Victim taken from the newest time only
LruKKeyNewest(rep, f) == rep.last1[f]

\* LruKReplacer::Victim, the key of entry f: last2, or last1 while last2 is
\* still the epoch
LruKKey(rep, f) == IF rep.last2[f] # 0 THEN rep.last2[f] ELSE rep.last1[f]

\* LruKReplacer::Victim: the first frame, in id order, with the least key
LruKVictim(rep) ==
  LET cand == {f \in 0..(rep.cap - 1) : rep.present[f]}
  IN IF cand = {} THEN [found |-> FALSE, fid |-> -1, rep |-> rep]
     ELSE LET sel == CHOOSE f \in cand : \A g \in cand :
                       \/ LruKKey(rep, f) < LruKKey(rep, g)
                       \/ (LruKKey(rep, f) = LruKKey(rep, g) /\ f <= g)
          IN [found |-> TRUE, fid |-> sel,
              rep |-> [rep EXCEPT !.present[sel] = FALSE]]

\* IReplacer::Victim
ReplacerVictim(rep) ==
  IF rep.kind = "clock" THEN ClockSweep(rep, 0) ELSE LruKVictim(rep)

\* ClockReplacer::Size / LruKReplacer::Size
ReplacerSize(rep) == Cardinality({f \in 0..(rep.cap - 1) : rep.present[f]})

---------------------------------------------------------------------------
(* DiskManager over one file.  A pool / disk state s is a record            *)
(*   frames, table, free_list, rep, now, stats, disk : the program's state  *)
(*   tick   : what steady_clock advanced by when Touch reads it             *)
(*   failAt : which system call of this call fails (0: none), io: the      *)
(*            number of system calls made so far in this call               *)

IoFails(s) == s.failAt # 0 /\ s.io + 1 = s.failAt

IoDone(s) == [s EXCEPT !.io = s.io + 1, !.failed = s.failed \/ IoFails(s)]

\* DiskManager::PageCount
PageCount(s) == Len(s.disk)

\* DiskManager::ReadPage: beyond EOF NotFound; pread may fail
ReadPage(s, pid) ==
  IF pid + 1 > Len(s.disk)
  THEN [status |-> "NotFound", s |-> s, data |-> ZeroPage]
  ELSE IF IoFails(s)
       THEN [status |-> "IOError", s |-> IoDone(s), data |-> ZeroPage]
       ELSE [status |-> "OK", s |-> IoDone(s), data |-> s.disk[pid + 1]]

\* File::Resize to n pages (ftruncate): new tail pages read as zeros
Grow(dsk, n) ==
  [i \in 1..n |-> IF i <= Len(dsk) THEN dsk[i] ELSE ZeroPage]

\* DiskManager::ResizeToPages
ResizeToPages(s, n) ==
  IF IoFails(s) THEN [status |-> "IOError", s |-> IoDone(s)]
  ELSE [status |-> "OK", s |-> [IoDone(s) EXCEPT !.disk = Grow(s.disk, n)]]

\* DiskManager::EnsureCapacityFor
EnsureCapacityFor(s, pid) ==
  IF Len(s.disk) >= pid + 1 THEN [status |-> "OK", s |-> s]
  ELSE ResizeToPages(s, pid + 1)

\* the trace of a call: <<"hook", page_id, page_lsn>> for a pre-flush hook
\* call, <<"write", ..>> for a page write that reached the file and
\* <<"fail", ..>> for one that did not, with the page_lsn of the bytes
IoLogged(s, kind, pid, data) ==
  [s EXCEPT !.log = Append(s.log, <<kind, pid, data.page_lsn>>)]

\* DiskManager::WritePage after EnsureCapacityFor returned e: the pwrite
WritePageAt(e, pid, data) ==
  IF e.status # "OK"
  THEN [status |-> e.status, s |-> IoLogged(e.s, "fail", pid, data)]
  ELSE IF IoFails(e.s)
  THEN [status |-> "IOError", s |-> IoLogged(IoDone(e.s), "fail", pid, data)]
  ELSE [status |-> "OK",
        s |-> IoLogged([IoDone(e.s) EXCEPT !.disk[pid + 1] = data],
                       "write", pid, data)]

\* DiskManager::WritePage: grow if needed, then pwrite
WritePage(s, pid, data) == WritePageAt(EnsureCapacityFor(s, pid), pid, data)

---------------------------------------------------------------------------
(* BufferPoolManager *)

NewFrame == [page_id |-> kInvalidPageId, pin_count |-> 0, dirty |-> FALSE,
             data |-> ZeroPage]

\* PageTable::Insert
TableInsert(t, pid, fid) ==
  [q \in (DOMAIN t) \cup {pid} |-> IF q = pid THEN fid ELSE t[q]]

\* PageTable::Erase
TableErase(t, pid) == [q \in (DOMAIN t) \ {pid} |-> t[q]]

\* BufferPoolManager::LookupFrame
LookupFrame(s, pid) == IF pid \in DOMAIN s.table THEN s.table[pid] ELSE -1

\* a flush that writes nothing and reports so
FlushFrameNoWrite(s, fid) == [ok |-> FALSE, s |-> s]

\* BufferPoolManager::FlushFrame after disk->WritePage returned w: dirty is
\* cleared only when the write succeeded
FlushWritten(w, fid, pid, lsn) ==
  IF w.status # "OK" THEN [ok |-> FALSE, s |-> w.s]
  ELSE [ok |-> TRUE, s |-> [w.s EXCEPT !.frames[fid].dirty = FALSE]]

\* BufferPoolManager::FlushFrame: the pre-flush hook, then WritePage
FlushFrame(s, fid) ==
  IF ~s.frames[fid].dirty \/ s.frames[fid].page_id = kInvalidPageId
  THEN [ok |-> FALSE, s |-> s]
  ELSE FlushWritten(
         WritePage([s EXCEPT !.log = Append(s.log,
                      <<"hook", s.frames[fid].page_id, s.frames[fid].data.page_lsn>>)],
                   s.frames[fid].page_id, s.frames[fid].data),
         fid, s.frames[fid].page_id, s.frames[fid].data.page_lsn)

\* BufferPoolManager::AcquireFrameFor after FlushFrame(victim) returned fl:
\* a flush is counted if it wrote; the victim is unmapped and an eviction
\* counted whether or not it wrote
EvictVictim(fl, fid, pid) ==
  [fid |-> fid,
   s |-> [fl.s EXCEPT !.stats.flushes = IF fl.ok THEN @ + 1 ELSE @,
                      !.table = TableErase(fl.s.table, pid),
                      !.stats.evictions = @ + 1]]

\* BufferPoolManager::AcquireFrameFor after replacer->Victim returned v
AcquireVictim(s, v) ==
  IF ~v.found THEN [fid |-> -1, s |-> [s EXCEPT !.rep = v.rep]]
  ELSE IF s.frames[v.fid].page_id = kInvalidPageId
  THEN [fid |-> v.fid, s |-> [s EXCEPT !.rep = v.rep]]
  ELSE EvictVictim(FlushFrame([s EXCEPT !.rep = v.rep], v.fid), v.fid,
                   s.frames[v.fid].page_id)

\* BufferPoolManager::AcquireFrameFor: free list first, else a victim,
\* flushed if dirty and unmapped
AcquireFrameFor(s) ==
  IF s.free_list # <<>>
  THEN [fid |-> Head(s.free_list), s |-> [s EXCEPT !.free_list = Tail(s.free_list)]]
  ELSE AcquireVictim(s, ReplacerVictim(s.rep))

\* FetchPage with the read reporting nothing: the frame is installed as
\* after a read that filled it
FetchReadIgnoreStatus(r, pid, fid) ==
  [status |-> r.status, fid |-> fid,
   s |-> [r.s EXCEPT !.frames[fid] = [page_id |-> pid, pin_count |-> 1,
                                      dirty |-> FALSE, data |-> r.data],
                     !.table = TableInsert(r.s.table, pid, fid),
                     !.rep = ReplacerPin(r.s.rep, fid),
                     !.stats.misses = @ + 1]]

\* BufferPoolManager::FetchPage, miss, after disk->ReadPage returned r into
\* frame fid: a failed read gives the frame back to the free list
FetchRead(r, pid, fid) ==
  IF r.status # "OK"
  THEN [status |-> r.status, fid |-> -1,
        s |-> [r.s EXCEPT !.frames[fid].page_id = kInvalidPageId,
                          !.frames[fid].pin_count = 0,
                          !.frames[fid].dirty = FALSE,
                          !.free_list = <<fid>> \o r.s.free_list]]
  ELSE [status |-> "OK", fid |-> fid,
        s |-> [r.s EXCEPT !.frames[fid] = [page_id |-> pid, pin_count |-> 1,
                                           dirty |-> FALSE, data |-> r.data],
                          !.table = TableInsert(r.s.table, pid, fid),
                          !.rep = ReplacerPin(r.s.rep, fid),
                          !.stats.misses = @ + 1]]

\* FetchPage that reports no frame as a page that is not there, and counts
\* the miss
FetchMissCounted(a, pid) ==
  IF a.fid < 0
  THEN [status |-> "NotFound", fid |-> -1,
        s |-> [a.s EXCEPT !.stats.misses = @ + 1]]
  ELSE FetchRead(ReadPage(a.s, pid), pid, a.fid)

\* BufferPoolManager::FetchPage, miss, after AcquireFrameFor returned a
FetchMiss(a, pid) ==
  IF a.fid < 0 THEN [status |-> "Unavailable", fid |-> -1, s |-> a.s]
  ELSE FetchRead(ReadPage(a.s, pid), pid, a.fid)

\* BufferPoolManager::FetchPage after LookupFrame returned hit
FetchLooked(s, pid, hit) ==
  IF hit >= 0
  THEN [status |-> "OK", fid |-> hit,
        s |-> [s EXCEPT !.frames[hit].pin_count = @ + 1,
                        !.rep = ReplacerPin(s.rep, hit),
                        !.stats.hits = @ + 1]]
  ELSE FetchMiss(AcquireFrameFor(s), pid)

\* BufferPoolManager::FetchPage (out_data non-null)
FetchPage(s, pid) == FetchLooked(s, pid, LookupFrame(s, pid))

\* BufferPoolManager::NewPage once the frame is bound to pid: the zero page
\* is written to grow the file and the result of WritePage is discarded
NewPageBound(s1, fid, pid) ==
  [status |-> "OK", fid |-> fid, pid |-> pid,
   s |-> WritePage(s1, pid, ZeroPage).s]

\* BufferPoolManager::NewPage after AcquireFrameFor returned a
NewPageIn(a) ==
  IF a.fid < 0
  THEN [status |-> "Unavailable", fid |-> -1, pid |-> kInvalidPageId, s |-> a.s]
  ELSE NewPageBound([a.s EXCEPT
                       !.frames[a.fid] = [page_id |-> PageCount(a.s), pin_count |-> 1,
                                          dirty |-> FALSE, data |-> ZeroPage],
                       !.table = TableInsert(a.s.table, PageCount(a.s), a.fid),
                       !.rep = ReplacerPin(a.s.rep, a.fid)],
                    a.fid, PageCount(a.s))

\* BufferPoolManager::NewPage; pid is disk->PageCount() read after the frame
\* was acquired
NewPage(s) == NewPageIn(AcquireFrameFor(s))

\* UnpinFrame without the check of the pin count
UnpinFrameUnchecked(s, fid, is_dirty) ==
  [status |-> "OK",
   s |-> [s EXCEPT !.frames[fid].pin_count = @ - 1,
                   !.frames[fid].dirty = @ \/ is_dirty]]

\* BufferPoolManager::UnpinFrame
UnpinFrame(s, fid, is_dirty) ==
  IF s.frames[fid].pin_count <= 0 THEN [status |-> "InvalidArgument", s |-> s]
  ELSE LET s1 == [s EXCEPT !.frames[fid].pin_count = @ - 1,
                           !.frames[fid].dirty = @ \/ is_dirty]
       IN IF s1.frames[fid].pin_count = 0
          THEN [status |-> "OK",
                s |-> [s1 EXCEPT !.rep = ReplacerUnpin(s1.rep, fid, s1.now + s1.tick),
                                 !.now = IF s1.rep.kind = "lruk"
                                         THEN s1.now + s1.tick ELSE s1.now]]
          ELSE [status |-> "OK", s |-> s1]

\* BufferPoolManager::UnpinPage
UnpinPage(s, pid, is_dirty) ==
  IF LookupFrame(s, pid) < 0 THEN [status |-> "NotFound", s |-> s]
  ELSE UnpinFrame(s, LookupFrame(s, pid), is_dirty)

\* BufferPoolManager::FlushPage after FlushFrame returned fl
FlushPageDone(fl) ==
  [status |-> "OK",
   s |-> IF fl.ok THEN [fl.s EXCEPT !.stats.flushes = @ + 1] ELSE fl.s]

\* BufferPoolManager::FlushPage
FlushPage(s, pid) ==
  IF LookupFrame(s, pid) < 0 THEN [status |-> "NotFound", s |-> s]
  ELSE FlushPageDone(FlushFrame(s, LookupFrame(s, pid)))

\* BufferPoolManager::FlushAll
RECURSIVE FlushAllFrom(_, _)
FlushAllFrom(s, fid) ==
  IF fid >= NumFrames THEN s ELSE FlushAllFrom(FlushFrame(s, fid).s, fid + 1)

FlushAll(s) == FlushAllFrom(s, 0)

---------------------------------------------------------------------------
(* FreeSpaceManager *)

\* bin thresholds the FSM is built with (sorted, distinct), scaled to PageSize
Thresholds == <<PageSize \div 8, PageSize \div 4, PageSize \div 2>>

\* FreeSpaceManager::FreeSpaceManager: Len(Thresholds) + 1 empty bins
\* without a segment probe
NewFsm == [bins |-> [b \in 0..Len(Thresholds) |-> {}],
           pid2bin |-> [q \in {} |-> 0],
           pid2free |-> [q \in {} |-> 0],
           probe |-> FALSE]

\* FreeSpaceManager::RegisterSegmentProbe
RegisterSegmentProbe(f) == [f EXCEPT !.probe = TRUE]

\* std::unordered_map::emplace: an existing key keeps its value
Emplace(m, k, v) ==
  IF k \in DOMAIN m THEN m
  ELSE [q \in DOMAIN m \cup {k} |-> IF q = k THEN v ELSE m[q]]

\* FreeSpaceManager::BinIndex: std::lower_bound, the index of the first
\* threshold that is not less than free_bytes
BinIndex(free_bytes) ==
  Cardinality({i \in 1..Len(Thresholds) : Thresholds[i] < free_bytes})

\* FreeSpaceManager::Find without the check of the recorded free bytes: any
\* page of the first non-empty bin from BinIndex(need_bytes) upward
FsmFindAnyInBin(f, need_bytes) ==
  LET cand == {b \in BinIndex(need_bytes)..Len(Thresholds) : f.bins[b] # {}}
  IN IF cand = {} THEN {kInvalidPageId}
     ELSE f.bins[CHOOSE b \in cand : \A c \in cand : b <= c]

\* Find starting its scan one bin above BinIndex(need_bytes)
FsmFindFromNextBin(f, need_bytes) ==
  LET fits(b) == {pid \in f.bins[b] :
                    pid \in DOMAIN f.pid2free /\ f.pid2free[pid] >= need_bytes}
      cand == {b \in (BinIndex(need_bytes) + 1)..Len(Thresholds) : fits(b) # {}}
  IN IF cand = {} THEN {kInvalidPageId}
     ELSE fits(CHOOSE b \in cand : \A c \in cand : b <= c)

\* FreeSpaceManager::Find: the pages the scan may return.  Bins are scanned
\* upward from BinIndex(need_bytes); a bin is an unordered_set, so within
\* the first bin holding a large enough page the iteration order decides
FsmFind(f, need_bytes) ==
  LET fits(b) == {pid \in f.bins[b] :
                    pid \in DOMAIN f.pid2free /\ f.pid2free[pid] >= need_bytes}
      cand == {b \in BinIndex(need_bytes)..Len(Thresholds) : fits(b) # {}}
  IN IF cand = {} THEN {kInvalidPageId}
     ELSE fits(CHOOSE b \in cand : \A c \in cand : b <= c)

\* an Update that leaves a tracked page in the bin it is in
FsmUpdateStaysInBin(f, pid, free_bytes) ==
  IF pid \in DOMAIN f.pid2bin
  THEN [f EXCEPT !.pid2free = [f.pid2free EXCEPT ![pid] = free_bytes]]
  ELSE [f EXCEPT !.bins = [f.bins EXCEPT ![BinIndex(free_bytes)] = @ \cup {pid}],
                 !.pid2bin = Emplace(f.pid2bin, pid, BinIndex(free_bytes)),
                 !.pid2free = Emplace(f.pid2free, pid, free_bytes)]

\* FreeSpaceManager::Update
FsmUpdate(f, pid, free_bytes) ==
  LET new_bin == BinIndex(free_bytes)
      put == [f.pid2free EXCEPT ![pid] = free_bytes]
  IN IF pid \in DOMAIN f.pid2bin
     THEN LET old_bin == f.pid2bin[pid]
          IN IF old_bin # new_bin
             THEN [f EXCEPT !.bins = [f.bins EXCEPT ![old_bin] = @ \ {pid},
                                                    ![new_bin] = @ \cup {pid}],
                            !.pid2bin = [f.pid2bin EXCEPT ![pid] = new_bin],
                            !.pid2free = put]
             ELSE [f EXCEPT !.pid2free = put]
     ELSE [f EXCEPT !.bins = [f.bins EXCEPT ![new_bin] = @ \cup {pid}],
                    !.pid2bin = Emplace(f.pid2bin, pid, new_bin),
                    !.pid2free = Emplace(f.pid2free, pid, free_bytes)]

\* FreeSpaceManager::Remove
FsmRemove(f, pid) ==
  IF pid \notin DOMAIN f.pid2bin THEN f
  ELSE [f EXCEPT !.bins = [f.bins EXCEPT ![f.pid2bin[pid]] = @ \ {pid}],
                 !.pid2bin = [q \in DOMAIN f.pid2bin \ {pid} |-> f.pid2bin[q]],
                 !.pid2free = [q \in DOMAIN f.pid2free \ {pid} |-> f.pid2free[q]]]

\* FreeSpaceManager::BinSizes
BinSizes(f) == [b \in 0..Len(Thresholds) |-> Cardinality(f.bins[b])]

\* FreeSpaceManager::TotalTrackedPages
TotalTrackedPages(f) == Cardinality(DOMAIN f.pid2bin)

\* SegmentManager::ProbePageFree after ReadPage returned rd: 0 for a page
\* that cannot be read or is not formatted
ProbeRead(rd) ==
  IF rd.status # "OK" THEN 0
  ELSE IF rd.data.format_version # kPageFormatVersion THEN 0
  ELSE rd.data.free_size

\* SegmentManager::ProbePageFree on the disk state s
ProbePageFree(s, pid) == ProbeRead(ReadPage(s, pid))

\* FreeSpaceManager::RebuildFromSegment, the loop body for a probed free
RebuildPut(f, pid, free) ==
  [f EXCEPT !.bins = [f.bins EXCEPT ![BinIndex(free)] = @ \cup {pid}],
            !.pid2bin = Emplace(f.pid2bin, pid, BinIndex(free)),
            !.pid2free = Emplace(f.pid2free, pid, free)]

RECURSIVE RebuildFrom(_, _, _)

\* the loop at page i, after its ReadPage returned rd
RebuildProbed(f, rd, i) ==
  RebuildFrom(RebuildPut(f, i, ProbeRead(rd)), rd.s, i + 1)

\* FreeSpaceManager::RebuildFromSegment, the loop from page i on
RebuildFrom(f, s, i) ==
  IF i >= PageCount(s) THEN [status |-> "OK", fsm |-> f, s |-> s]
  ELSE RebuildProbed(f, ReadPage(s, i), i)

\* RebuildFromSegment without the three clear() calls
RebuildFromSegmentKeep(f, s) ==
  IF ~f.probe THEN [status |-> "Unavailable", fsm |-> f, s |-> s]
  ELSE RebuildFrom(f, s, 0)

\* FreeSpaceManager::RebuildFromSegment
RebuildFromSegment(f, s) ==
  IF ~f.probe THEN [status |-> "Unavailable", fsm |-> f, s |-> s]
  ELSE RebuildFrom([f EXCEPT !.bins = NewFsm.bins,
                             !.pid2bin = NewFsm.pid2bin,
                             !.pid2free = NewFsm.pid2free], s, 0)

---------------------------------------------------------------------------
(* SegmentManager, for the one segment the table lives in.  A heap state h *)
(* is [s : pool / disk state, fsm, sm_free : the segment's free_list]      *)

\* SegmentManager::AllocatePage after ResizeToPages(count + 1) returned r
AllocGrown(h, count, r) ==
  [pid |-> IF r.status = "OK" THEN count ELSE kInvalidPageId,
   h |-> [h EXCEPT !.s = r.s]]

\* AllocatePage taking the oldest freed page (front) instead of back()
AllocatePageFifo(h) ==
  IF h.sm_free # <<>>
  THEN [pid |-> h.sm_free[1], h |-> [h EXCEPT !.sm_free = Tail(h.sm_free)]]
  ELSE AllocGrown(h, PageCount(h.s), ResizeToPages(h.s, PageCount(h.s) + 1))

\* SegmentManager::AllocatePage (the segment exists): reuse the last freed
\* page, else grow the file by one page
AllocatePage(h) ==
  IF h.sm_free # <<>>
  THEN [pid |-> h.sm_free[Len(h.sm_free)],
        h |-> [h EXCEPT !.sm_free = SubSeq(h.sm_free, 1, Len(h.sm_free) - 1)]]
  ELSE AllocGrown(h, PageCount(h.s), ResizeToPages(h.s, PageCount(h.s) + 1))

\* SegmentManager::FreePage (the segment exists): free_list.push_back(pid)
FreePage(h, pid) == [h EXCEPT !.sm_free = Append(h.sm_free, pid)]

---------------------------------------------------------------------------
(* TableHeap.  A tuple t is [size, fill]: size bytes of the pattern         *)
(* RecByte(t, _).  A rid is [page_id, slot].                                *)

NoRid == [page_id |-> kInvalidPageId, slot |-> 0]

\* the bytes of the pinned frame, seen as a page
FrameData(h, fid) == h.s.frames[fid].data

\* a store through the pointer FetchPage returned
SetFrameData(h, fid, p) == [h EXCEPT !.s.frames[fid].data = p]

\* bpm_->FetchPage from a TableHeap method; r: what FetchPage returned
HeapFetched(h, r) ==
  [status |-> r.status, fid |-> r.fid, h |-> [h EXCEPT !.s = r.s]]

HeapFetch(h, pid) == HeapFetched(h, FetchPage(h.s, pid))

\* a method that forgets bpm_->UnpinPage
HeapUnpinForgotten(h, pid, is_dirty) == h

HeapUnpin(h, pid, is_dirty) == [h EXCEPT !.s = UnpinPage(h.s, pid, is_dirty).s]

\* TableHeap::UpdateFsmForPage
UpdateFsmForPage(h, pid, fid) ==
  [h EXCEPT !.fsm = FsmUpdate(h.fsm, pid, FrameData(h, fid).free_size)]

\* TableHeap::Insert, step 2, after the second FetchPage returned g: report
\* the free space to the FSM and unpin clean
HeapPageReport(g, pid) ==
  [status |-> "OK", pid |-> pid,
   h |-> IF g.status = "OK"
         THEN HeapUnpin(UpdateFsmForPage(g.h, pid, g.fid), pid, FALSE)
         ELSE g.h]

\* TableHeap::Insert, step 2, after FetchPage returned f: format the page,
\* unpin it dirty, fetch it again
HeapPageFormat(f, pid) ==
  IF f.status # "OK" THEN [status |-> f.status, pid |-> pid, h |-> f.h]
  ELSE HeapPageReport(
         HeapFetch(HeapUnpin(SetFrameData(f.h, f.fid, InitNew(pid)), pid, TRUE), pid),
         pid)

\* TableHeap::Insert, step 2, after sm_->AllocatePage returned a
HeapPageAllocated(a) ==
  IF a.pid = kInvalidPageId
  THEN [status |-> "Unavailable", pid |-> kInvalidPageId, h |-> a.h]
  ELSE HeapPageFormat(HeapFetch(a.h, a.pid), a.pid)

\* TableHeap::Insert, step 2: the FSM found no page; allocate one, format
\* it, unpin it dirty, fetch it again to report its free space
HeapNewPage(h) == HeapPageAllocated(AllocatePage(h))

\* TableHeap::Insert, retry, after sp2.Insert on the fresh page returned ins2
RetryInserted(nf, ins2, npid) ==
  IF ins2.status # "OK"
  THEN [status |-> ins2.status, rid |-> NoRid,
        h |-> HeapUnpin(SetFrameData(nf.h, nf.fid, ins2.p), npid, FALSE)]
  ELSE [status |-> "OK", rid |-> [page_id |-> npid, slot |-> ins2.slot],
        h |-> HeapUnpin(UpdateFsmForPage(SetFrameData(nf.h, nf.fid, ins2.p),
                                         npid, nf.fid),
                        npid, TRUE)]

\* TableHeap::Insert, retry, after FetchPage(npid) returned nf
RetryFetched(nf, npid, t, len) ==
  IF nf.status # "OK"
  THEN [status |-> "Unavailable", rid |-> NoRid, h |-> nf.h]
  ELSE RetryInserted(nf, SlottedInsert(InitNew(npid), t, len), npid)

\* TableHeap::Insert, retry, after sm_->AllocatePage returned a; status is
\* the first insert's
RetryAllocated(a, status, t, len) ==
  IF a.pid = kInvalidPageId THEN [status |-> status, rid |-> NoRid, h |-> a.h]
  ELSE RetryFetched(HeapFetch(a.h, a.pid), a.pid, t, len)

\* TableHeap::Insert, step 3, after sp.Insert returned ins on frame f.fid
PageInserted(f, ins, pid, t, len) ==
  IF ins.status = "OK"
  THEN [status |-> "OK", rid |-> [page_id |-> pid, slot |-> ins.slot],
        h |-> HeapUnpin(UpdateFsmForPage(SetFrameData(f.h, f.fid, ins.p),
                                         pid, f.fid),
                        pid, TRUE)]
  ELSE RetryAllocated(
         AllocatePage(HeapUnpin(SetFrameData(f.h, f.fid, ins.p), pid, FALSE)),
         ins.status, t, len)

\* TableHeap::Insert, step 3, after FetchPage(pid) returned f
InsertFetched(f, pid, t, len) ==
  IF f.status # "OK" THEN [status |-> f.status, rid |-> NoRid, h |-> f.h]
  ELSE PageInserted(f, SlottedInsert(FrameData(f.h, f.fid), t, len), pid, t, len)

\* TableHeap::Insert, step 3: insert into page pid; if the page refuses,
\* unpin it clean, allocate a new page and try once more.  The length handed
\* to SlottedPage::Insert is static_cast<uint16_t>(t.Size())
HeapInsertAt(h, pid, t) == InsertFetched(HeapFetch(h, pid), pid, t, U16(t.size))

\* TableHeap::Insert, after step 2 returned n
InsertOnNew(n, t) ==
  IF n.status # "OK" THEN [status |-> n.status, rid |-> NoRid, h |-> n.h]
  ELSE HeapInsertAt(n.h, n.pid, t)

\* TableHeap::Insert(t, out); pick is what fsm_->Find(need) returned
HeapInsert(h, t, pick) ==
  IF t.size = 0 THEN [status |-> "InvalidArgument", rid |-> NoRid, h |-> h]
  ELSE IF pick = kInvalidPageId THEN InsertOnNew(HeapNewPage(h), t)
  ELSE HeapInsertAt(h, pick, t)

\* TableHeap::Update, overflow, after the old page was fetched again as o:
\* erase the old slot, report the free space, unpin dirty
MovedRefetched(o, rid, new_rid) ==
  IF o.status # "OK" THEN [status |-> "Unavailable", moved |-> FALSE, new_rid |-> NoRid, h |-> o.h]
  ELSE [status |-> "OK", moved |-> TRUE, new_rid |-> new_rid,
        h |-> HeapUnpin(
                UpdateFsmForPage(
                  SetFrameData(o.h, o.fid,
                               SlottedErase(FrameData(o.h, o.fid), rid.slot).p),
                  rid.page_id, o.fid),
                rid.page_id, TRUE)]

\* TableHeap::Update, overflow, after Insert(t, &new_rid) returned ins
MovedInserted(ins, rid) ==
  IF ins.status # "OK" THEN [status |-> ins.status, moved |-> FALSE, new_rid |-> NoRid, h |-> ins.h]
  ELSE MovedRefetched(HeapFetch(ins.h, rid.page_id), rid, ins.rid)

\* TableHeap::Update after sp.Update returned up on frame f.fid
PageUpdated(f, up, rid, t, pick) ==
  IF up.status = "OK"
  THEN [status |-> "OK", moved |-> FALSE, new_rid |-> NoRid,
        h |-> HeapUnpin(UpdateFsmForPage(SetFrameData(f.h, f.fid, up.p),
                                         rid.page_id, f.fid),
                        rid.page_id, TRUE)]
  ELSE IF up.status = "OutOfRange"
  THEN MovedInserted(
         HeapInsert(HeapUnpin(SetFrameData(f.h, f.fid, up.p), rid.page_id, FALSE),
                    t, pick),
         rid)
  ELSE [status |-> up.status, moved |-> FALSE, new_rid |-> NoRid,
        h |-> HeapUnpin(SetFrameData(f.h, f.fid, up.p), rid.page_id, FALSE)]

\* TableHeap::Update after FetchPage(rid.page_id) returned f
UpdateFetched(f, rid, t, pick) ==
  IF f.status # "OK" THEN [status |-> f.status, moved |-> FALSE, new_rid |-> NoRid, h |-> f.h]
  ELSE PageUpdated(f, SlottedUpdate(FrameData(f.h, f.fid), rid.slot, t, U16(t.size)),
                   rid, t, pick)

\* TableHeap::Update(rid, t); pick is what fsm_->Find returns if the update
\* overflows the page and the tuple is inserted elsewhere
HeapUpdate(h, rid, t, pick) == UpdateFetched(HeapFetch(h, rid.page_id), rid, t, pick)

\* TableHeap::Erase after sp.Erase returned del on frame f.fid
PageErased(f, del, rid) ==
  IF del.status = "OK"
  THEN [status |-> "OK",
        h |-> HeapUnpin(UpdateFsmForPage(SetFrameData(f.h, f.fid, del.p),
                                         rid.page_id, f.fid),
                        rid.page_id, TRUE)]
  ELSE [status |-> del.status,
        h |-> HeapUnpin(SetFrameData(f.h, f.fid, del.p), rid.page_id, FALSE)]

\* TableHeap::Erase after FetchPage(rid.page_id) returned f
EraseFetched(f, rid) ==
  IF f.status # "OK" THEN [status |-> f.status, h |-> f.h]
  ELSE PageErased(f, SlottedErase(FrameData(f.h, f.fid), rid.slot), rid)

\* TableHeap::Erase(rid)
HeapErase(h, rid) == EraseFetched(HeapFetch(h, rid.page_id), rid)

\* TableHeap::Get after sp.Get returned g
PageGot(f, g, rid) ==
  [status |-> g.status, bytes |-> g.bytes,
   h |-> HeapUnpin(f.h, rid.page_id, FALSE)]

\* TableHeap::Get after FetchPage(rid.page_id) returned f
GetFetched(f, rid) ==
  IF f.status # "OK" THEN [status |-> f.status, bytes |-> <<>>, h |-> f.h]
  ELSE PageGot(f, SlottedGet(FrameData(f.h, f.fid), rid.slot), rid)

\* TableHeap::Get(rid, out): Tuple::Deserialize copies the len bytes found
HeapGet(h, rid) == GetFetched(HeapFetch(h, rid.page_id), rid)

---------------------------------------------------------------------------
(* TableIterator.  it is the iterator's fields (pid, slot, end, cur); a    *)
(* result is [h, it], the heap after the call and the iterator after it.   *)

RECURSIVE SeekPage(_, _, _, _)
RECURSIVE SeekSlots(_, _, _, _, _)
RECURSIVE AdvPage(_, _, _, _, _)
RECURSIVE AdvSlots(_, _, _, _, _, _)

\* current_.rid = RID{p, s}; current_.tuple = Tuple::Deserialize(rec, len)
SetCurrent(it, p, s, bytes) ==
  [it EXCEPT !.cur = [rid |-> [page_id |-> p, slot |-> s], bytes |-> bytes]]

\* SeekFirst, inside the slot loop: sp.Get(s) returned g
SeekGot(f, g, it, p, pages, s) ==
  IF g.status = "OK"
  THEN [h |-> HeapUnpin(f.h, p, FALSE),
        it |-> [SetCurrent(it, p, s, g.bytes)
                  EXCEPT !.pid = p, !.slot = s, !.end = FALSE]]
  ELSE SeekSlots(f, it, p, pages, s + 1)

\* SeekFirst: the loop over the slots of page p, pinned in frame f.fid
SeekSlots(f, it, p, pages, s) ==
  IF s >= FrameData(f.h, f.fid).slot_count
  THEN SeekPage(HeapUnpin(f.h, p, FALSE), it, p + 1, pages)
  ELSE SeekGot(f, SlottedGet(FrameData(f.h, f.fid), s), it, p, pages, s)

\* SeekFirst after FetchPage(p) returned f: a page that cannot be fetched is
\* passed over
SeekFetched(f, it, p, pages) ==
  IF f.status # "OK" THEN SeekPage(f.h, it, p + 1, pages)
  ELSE SeekSlots(f, it, p, pages, 0)

\* SeekFirst: the loop over the pages
SeekPage(h, it, p, pages) ==
  IF p >= pages THEN [h |-> h, it |-> [it EXCEPT !.end = TRUE]]
  ELSE SeekFetched(HeapFetch(h, p), it, p, pages)

\* TableIterator::SeekFirst
SeekFirst(h, it) == SeekPage(h, it, 0, PageCount(h.s))

\* TableIterator::TableIterator(table)
NewIterator(h) == SeekFirst(h, [NoIter EXCEPT !.end = FALSE])

\* LoadAt after sp.Get(slot) returned g
LoadGot(f, g, it, pid, slot) ==
  [ok |-> g.status = "OK", h |-> HeapUnpin(f.h, pid, FALSE),
   it |-> IF g.status = "OK" THEN SetCurrent(it, pid, slot, g.bytes) ELSE it]

\* LoadAt after FetchPage(pid) returned f
LoadFetched(f, it, pid, slot) ==
  IF f.status # "OK" THEN [ok |-> FALSE, h |-> f.h, it |-> it]
  ELSE IF slot >= FrameData(f.h, f.fid).slot_count
       THEN [ok |-> FALSE, h |-> HeapUnpin(f.h, pid, FALSE), it |-> it]
       ELSE LoadGot(f, SlottedGet(FrameData(f.h, f.fid), slot), it, pid, slot)

\* TableIterator::LoadAt(pid, slot)
LoadAt(h, it, pid, slot) == LoadFetched(HeapFetch(h, pid), it, pid, slot)

\* AdvanceOne after LoadAt(p, s) returned l
AdvLoaded(l, p, s, max_slot, pages) ==
  IF l.ok THEN [ok |-> TRUE, h |-> l.h, it |-> [l.it EXCEPT !.pid = p, !.slot = s]]
  ELSE AdvSlots(l.h, l.it, p, s + 1, max_slot, pages)

\* AdvanceOne: the loop over the slots of page p, which is no longer pinned
AdvSlots(h, it, p, s, max_slot, pages) ==
  IF s >= max_slot THEN AdvPage(h, it, p + 1, 0, pages)
  ELSE AdvLoaded(LoadAt(h, it, p, s), p, s, max_slot, pages)

\* AdvanceOne after FetchPage(p) returned f: slot_count is read, the page is
\* unpinned; a page that cannot be fetched is passed over
AdvFetched(f, it, p, s, pages) ==
  IF f.status # "OK" THEN AdvPage(f.h, it, p + 1, 0, pages)
  ELSE AdvSlots(HeapUnpin(f.h, p, FALSE), it, p, s,
                FrameData(f.h, f.fid).slot_count, pages)

\* AdvanceOne: the loop over the pages
AdvPage(h, it, p, s, pages) ==
  IF p >= pages THEN [ok |-> FALSE, h |-> h, it |-> it]
  ELSE AdvFetched(HeapFetch(h, p), it, p, s, pages)

\* TableIterator::AdvanceOne
AdvanceOne(h, it) == AdvPage(h, it, it.pid, U16(it.slot + 1), PageCount(h.s))

\* operator++ after AdvanceOne returned a
Advanced(a) ==
  [h |-> a.h, it |-> IF a.ok THEN a.it ELSE [a.it EXCEPT !.end = TRUE]]

\* TableIterator::operator++
IterAdvance(h, it) ==
  IF it.end THEN [h |-> h, it |-> it] ELSE Advanced(AdvanceOne(h, it))

---------------------------------------------------------------------------
(* Specification of one stand-alone slotted page: SpecPage *)

NoCall == [op |-> "none", status |-> "OK", slot |-> 0, rec |-> [fill |-> 1],
           len |-> 0, compacted |-> FALSE, moved |-> FALSE, old_len |-> 0]

Recs == [fill : Fills]

\* no pool, disk, segment manager or FSM is attached to the page
PageIdle ==
  /\ frames = <<>> /\ table = <<>> /\ free_list = <<>> /\ replacer = <<>>
  /\ now = 0 /\ stats = <<>> /\ disk = <<>> /\ fsm = <<>> /\ sm_free = <<>>
  /\ durable = <<>> /\ io_failed = 0 /\ steps = 0

PageInit ==
  /\ pg = InitNew(0)
  /\ iter = NoIter /\ mu = 0 /\ segs = <<>>
  /\ last = NoCall
  /\ PageIdle

\* old_len: length the slot held before the call (0: tombstone or no slot);
\* moved: Compact ran and changed some slot's offset
PCall(op, r, slot, rec, len) ==
  /\ pg' = r.p
  /\ last' = [op |-> op, status |-> r.status, slot |-> slot, rec |-> rec,
              len |-> len, compacted |-> r.compacted,
              moved |-> r.compacted /\ r.after.slots # r.before.slots,
              old_len |-> IF slot < pg.slot_count THEN pg.slots[slot + 1].len ELSE 0]
  /\ steps' = steps + 1
  /\ UNCHANGED <<mu, segs, iter, frames, table, free_list, replacer, now, stats, disk, fsm,
                 sm_free, durable, io_failed>>

PInsert ==
  \E rec \in Recs, len \in 0..MaxRecLen :
    /\ steps < MaxPageOps
    /\ len = 0 => rec.fill = 1
    /\ LET r == SlottedInsert(pg, rec, len)
       IN PCall("Insert", r, r.slot, rec, len)

PUpdate ==
  \E slot \in 0..pg.slot_count, rec \in Recs, len \in 0..MaxRecLen :
    /\ steps < MaxPageOps
    /\ len = 0 => rec.fill = 1
    /\ LET r == SlottedUpdate(pg, slot, rec, len)
       IN PCall("Update", r, slot, rec, len)

PErase ==
  \E slot \in 0..pg.slot_count :
    /\ steps < MaxPageOps
    /\ LET r == SlottedErase(pg, slot)
       IN PCall("Erase", r @@ [compacted |-> FALSE, before |-> pg, after |-> pg],
                slot, [fill |-> 1], 0)

PageNext == PInsert \/ PUpdate \/ PErase

SpecPage == PageInit /\ [][PageNext]_vars

---------------------------------------------------------------------------
(* Specification of the buffer pool under concurrent callers: SpecBP.      *)
(* Every BufferPoolManager method runs under Impl::mu, so each call is one *)
(* step; callers interleave between calls.                                 *)

EmptyTable == [q \in {} |-> 0]

ZeroStats == [hits |-> 0, misses |-> 0, evictions |-> 0, flushes |-> 0]

\* the segment file the pool is opened on: two formatted, empty pages
InitDisk == [i \in 1..(MaxPages - 1) |-> InitNew(i - 1)]

InitDurable ==
  [p \in PageIds |->
     IF p + 1 <= Len(InitDisk) THEN [data |-> InitDisk[p + 1], track |-> "clean"]
     ELSE [data |-> ZeroPage, track |-> "none"]]

PoolInit ==
  /\ frames = [f \in FrameIds |-> NewFrame]
  /\ table = EmptyTable
  /\ free_list = [i \in 1..NumFrames |-> i - 1]
  /\ replacer \in {NewReplacer("clock"), NewReplacer("lruk")}
  /\ now = 1
  /\ stats = ZeroStats
  /\ disk = InitDisk
  /\ durable = InitDurable
  /\ io_failed = 0
  /\ steps = 0

BPInit ==
  /\ PoolInit
  /\ pg = ZeroPage /\ iter = NoIter /\ mu = 0 /\ segs = <<>> /\ fsm = <<>> /\ sm_free = <<>>
  /\ last = [op |-> "none", status |-> "OK", pid |-> 0, fid |-> -1,
             hit |-> FALSE, log |-> <<>>]

\* the pool and disk as the state record the operators work on
Pool(tick, failAt) ==
  [frames |-> frames, table |-> table, free_list |-> free_list,
   rep |-> replacer, now |-> now, stats |-> stats, disk |-> disk,
   tick |-> tick, failAt |-> failAt, io |-> 0, failed |-> FALSE, log |-> <<>>]

Commit(s) ==
  /\ frames' = s.frames /\ table' = s.table /\ free_list' = s.free_list
  /\ replacer' = s.rep /\ now' = s.now /\ stats' = s.stats /\ disk' = s.disk
  /\ io_failed' = io_failed + (IF s.failed THEN 1 ELSE 0)

\* the injected failure, if any, did strike a system call of this call, and
\* the run has not used up its failures
Struck(s) == s.failAt = 0 \/ (s.failed /\ io_failed < MaxIoFailures)

\* steady_clock advances between two readings
Ticks == {1}

BFetch ==
  \E pid \in PageIds, failAt \in 0..2 :
    /\ steps < MaxOps
    /\ LET r == FetchPage(Pool(0, failAt), pid)
       IN /\ Struck(r.s)
          /\ Commit(r.s)
          /\ last' = [op |-> "Fetch", status |-> r.status, pid |-> pid,
                      fid |-> r.fid, hit |-> pid \in DOMAIN table, log |-> r.s.log]
    /\ steps' = steps + 1
    /\ UNCHANGED <<mu, segs, iter, pg, fsm, sm_free, durable>>

BNewPage ==
  \E failAt \in 0..3 :
    /\ steps < MaxOps
    /\ PageCount(Pool(0, 0)) < MaxPages
    /\ LET r == NewPage(Pool(0, failAt))
       IN /\ Struck(r.s)
          /\ Commit(r.s)
          /\ last' = [op |-> "NewPage", status |-> r.status, pid |-> r.pid,
                      fid |-> r.fid, hit |-> FALSE, log |-> r.s.log]
          /\ durable' = IF r.status = "OK"
                        THEN [durable EXCEPT ![r.pid] = [data |-> ZeroPage, track |-> "clean"]]
                        ELSE durable
    /\ steps' = steps + 1
    /\ UNCHANGED <<mu, segs, iter, pg, fsm, sm_free>>

BUnpin ==
  \E pid \in PageIds, is_dirty \in BOOLEAN, tick \in Ticks :
    /\ steps < MaxOps
    /\ LET r == UnpinPage(Pool(tick, 0), pid, is_dirty)
           fid == LookupFrame(Pool(tick, 0), pid)
       IN /\ Commit(r.s)
          /\ last' = [op |-> "Unpin", status |-> r.status, pid |-> pid,
                      fid |-> fid, hit |-> is_dirty, log |-> r.s.log]
          /\ durable' =
               IF r.status # "OK" THEN durable
               ELSE IF is_dirty
                    THEN [durable EXCEPT ![pid] = [data |-> frames[fid].data, track |-> "clean"]]
                    ELSE IF durable[pid].track = "pending"
                         THEN [durable EXCEPT ![pid].track = "broken"]
                         ELSE durable
    /\ steps' = steps + 1
    /\ UNCHANGED <<mu, segs, iter, pg, fsm, sm_free>>

BFlush ==
  \E pid \in PageIds, failAt \in 0..1 :
    /\ steps < MaxOps
    /\ LET r == FlushPage(Pool(0, failAt), pid)
       IN /\ Struck(r.s)
          /\ Commit(r.s)
          /\ last' = [op |-> "Flush", status |-> r.status, pid |-> pid,
                      fid |-> LookupFrame(Pool(0, 0), pid), hit |-> FALSE, log |-> r.s.log]
    /\ steps' = steps + 1
    /\ UNCHANGED <<mu, segs, iter, pg, fsm, sm_free, durable>>

BFlushAll ==
  \E failAt \in 0..NumFrames :
    /\ steps < MaxOps
    /\ LET s == FlushAll(Pool(0, failAt))
       IN /\ Struck(s)
          /\ Commit(s)
          /\ last' = [op |-> "FlushAll", status |-> "OK", pid |-> 0,
                      fid |-> -1, hit |-> FALSE, log |-> s.log]
    /\ steps' = steps + 1
    /\ UNCHANGED <<mu, segs, iter, pg, fsm, sm_free, durable>>

\* a holder of a pin writes through the pointer FetchPage / NewPage gave it:
\* here, a larger page_lsn into the page header
BWrite ==
  \E fid \in FrameIds, lsn \in 0..MaxLsn :
    /\ frames[fid].pin_count > 0
    /\ frames[fid].page_id # kInvalidPageId
    /\ frames[fid].data.page_lsn < lsn
    /\ frames' = [frames EXCEPT ![fid].data.page_lsn = lsn]
    /\ durable' = [durable EXCEPT ![frames[fid].page_id].track =
                      IF @ = "clean" THEN "pending" ELSE @]
    /\ last' = [op |-> "Write", status |-> "OK", pid |-> frames[fid].page_id,
                fid |-> fid, hit |-> FALSE, log |-> <<>>]
    /\ UNCHANGED <<mu, segs, iter, pg, table, free_list, replacer, now, stats, disk, fsm,
                   sm_free, io_failed, steps>>

BPNext == BFetch \/ BNewPage \/ BUnpin \/ BFlush \/ BFlushAll \/ BWrite

SpecBP == BPInit /\ [][BPNext]_vars

---------------------------------------------------------------------------
(* Specification of one TableHeap over its pool, FSM and segment: SpecHeap. *)
(* One caller; every TableHeap call is one step.                            *)

\* a record that fills an empty page exactly
FullLen == PageSize - HeaderSize - SlotSize

\* a record that fits beside a one byte record and its hole, while a second
\* one of the same length does not fit in the page with it
MidLen == (PageSize - HeaderSize - 2 * SlotSize) \div 2 + 1

\* tuple sizes: small, half a page, page filling, and three that do not fit
\* in 16 bits
TupleSizes == {1, MidLen, FullLen, U16Mod, U16Mod + 1, U16Mod + FullLen}

\* the small tuples come with either fill, the others with one
HeapTuples == {t \in [size : TupleSizes, fill : Fills] : t.size > 1 => t.fill = 1}

HeapSlots == 0..((PageSize - HeaderSize) \div (SlotSize + 1) - 1)

HeapRids == [page_id : PageIds, slot : HeapSlots]

\* a fresh segment file, an empty FSM, all frames free
HeapInit ==
  /\ frames = [f \in FrameIds |-> NewFrame]
  /\ table = EmptyTable
  /\ free_list = [i \in 1..NumFrames |-> i - 1]
  /\ replacer \in {NewReplacer("clock"), NewReplacer("lruk")}
  /\ now = 1
  /\ stats = ZeroStats
  /\ disk = <<>>
  /\ fsm = RegisterSegmentProbe(NewFsm)
  /\ sm_free = <<>>
  /\ pg = ZeroPage /\ iter = NoIter /\ mu = 0 /\ segs = <<>> /\ durable = <<>>
  /\ io_failed = 0 /\ steps = 0
  /\ last = [op |-> "none", status |-> "OK", rid |-> NoRid,
             t |-> [size |-> 0, fill |-> 1], moved |-> FALSE, new_rid |-> NoRid]

Heap(failAt) == [s |-> Pool(1, failAt), fsm |-> fsm, sm_free |-> sm_free]

HCommit(h) ==
  /\ Struck(h.s)
  /\ Len(h.s.disk) <= MaxPages
  /\ Commit(h.s)
  /\ fsm' = h.fsm
  /\ sm_free' = h.sm_free
  /\ steps' = steps + 1
  /\ UNCHANGED <<mu, segs, iter, pg, durable>>

HInsert ==
  \E t \in HeapTuples, failAt \in 0..MaxSysCalls :
    \E pick \in FsmFind(fsm, U16(t.size)) :
      /\ steps < MaxHeapOps
      /\ LET r == HeapInsert(Heap(failAt), t, pick)
         IN /\ HCommit(r.h)
            /\ last' = [op |-> "Insert", status |-> r.status, rid |-> r.rid,
                        t |-> t, moved |-> FALSE, new_rid |-> NoRid]

HUpdate ==
  \E rid \in HeapRids, t \in HeapTuples, failAt \in 0..MaxSysCalls :
    \E pick \in FsmFind(fsm, U16(t.size)) :
      /\ steps < MaxHeapOps
      /\ LET r == HeapUpdate(Heap(failAt), rid, t, pick)
         IN /\ HCommit(r.h)
            /\ last' = [op |-> "Update", status |-> r.status, rid |-> rid,
                        t |-> t, moved |-> r.moved, new_rid |-> r.new_rid]

HErase ==
  \E rid \in HeapRids, failAt \in 0..MaxSysCalls :
    /\ steps < MaxHeapOps
    /\ LET r == HeapErase(Heap(failAt), rid)
       IN /\ HCommit(r.h)
          /\ last' = [op |-> "Erase", status |-> r.status, rid |-> rid,
                      t |-> [size |-> 0, fill |-> 1], moved |-> FALSE, new_rid |-> NoRid]

HGet ==
  \E rid \in HeapRids, failAt \in 0..MaxSysCalls :
    /\ steps < MaxHeapOps
    /\ LET r == HeapGet(Heap(failAt), rid)
       IN /\ HCommit(r.h)
          /\ last' = [op |-> "Get", status |-> r.status, rid |-> rid,
                      t |-> [size |-> Len(r.bytes), fill |-> 1], moved |-> FALSE,
                      new_rid |-> NoRid]

HeapNext == HInsert \/ HUpdate \/ HErase \/ HGet

SpecHeap == HeapInit /\ [][HeapNext]_vars

---------------------------------------------------------------------------
(* A scan of the heap: SpecScan.  The heap is filled by TableHeap calls,   *)
(* then one TableIterator is constructed and advanced; nothing else        *)
(* touches the heap while the iterator lives.                              *)

\* a row as operator* shows it
Row(it) == it.cur

ICommit(r) ==
  /\ Struck(r.h.s)
  /\ Commit(r.h.s)
  /\ iter' = [r.it EXCEPT !.started = TRUE,
                          !.out = IF r.it.end THEN iter.out
                                  ELSE Append(iter.out, Row(r.it))]
  /\ UNCHANGED <<mu, segs, pg, fsm, sm_free, durable, steps>>

\* the TableHeap calls that fill the heap before the scan
SFill == ~iter.started /\ HeapNext

\* it = TableIterator(table)
IBegin ==
  \E failAt \in 0..MaxSysCalls :
    /\ ~iter.started
    /\ ICommit(NewIterator(Heap(failAt)))
    /\ last' = [last EXCEPT !.op = "Begin", !.status = "OK"]

\* ++it, on an iterator that is not at End
INext ==
  \E failAt \in 0..MaxSysCalls :
    /\ iter.started /\ ~iter.end
    /\ ICommit(IterAdvance(Heap(failAt), iter))
    /\ last' = [last EXCEPT !.op = "Next", !.status = "OK"]

\* ++it, on an iterator at End
IPastEnd ==
  /\ iter.started /\ iter.end /\ last.op # "PastEnd"
  /\ ICommit(IterAdvance(Heap(0), iter))
  /\ last' = [last EXCEPT !.op = "PastEnd", !.status = "OK"]

ScanNext == SFill \/ IBegin \/ INext \/ IPastEnd

SpecScan == HeapInit /\ [][ScanNext]_vars

---------------------------------------------------------------------------
(* The FreeSpaceManager on its own, over a segment file that does not      *)
(* change: every FreeSpaceManager call is one step.                        *)

\* free byte counts handed to Update and Find: none, a threshold, one more,
\* and the next threshold
FsmFrees == {0, Thresholds[1], Thresholds[1] + 1, Thresholds[2]}

\* the segment file: an empty page, a page with one record, then pages that
\* were grown but never formatted
FsmDisk ==
  [i \in 1..MaxPages |->
     IF i = 1 THEN InitNew(0)
     ELSE IF i = 2 THEN SlottedInsert(InitNew(1), [fill |-> 1], 1).p
     ELSE ZeroPage]

\* page ids handed to Update and Remove: those of the file and one past its end
FsmPageIds == PageIds \cup {MaxPages}

FsmInit ==
  /\ frames = [f \in FrameIds |-> NewFrame]
  /\ table = EmptyTable
  /\ free_list = [i \in 1..NumFrames |-> i - 1]
  /\ replacer = NewReplacer("clock")
  /\ now = 1
  /\ stats = ZeroStats
  /\ disk = FsmDisk
  /\ fsm = NewFsm
  /\ sm_free = <<>>
  /\ pg = ZeroPage /\ iter = NoIter /\ mu = 0 /\ segs = <<>> /\ durable = <<>>
  /\ io_failed = 0 /\ steps = 0
  /\ last = [op |-> "none", status |-> "OK", pid |-> kInvalidPageId, bytes |-> 0]

\* what the FreeSpaceManager calls leave alone
FsmIdle ==
  UNCHANGED <<mu, segs, iter, pg, frames, table, free_list, replacer, now, stats, disk,
              sm_free, durable, steps>>

\* the segment's disk manager as the probe reads it
FsmProbeDisk(failAt) ==
  [disk |-> disk, failAt |-> failAt, io |-> 0, failed |-> FALSE]

FRegister ==
  /\ fsm' = RegisterSegmentProbe(fsm)
  /\ last' = [op |-> "Register", status |-> "OK", pid |-> kInvalidPageId, bytes |-> 0]
  /\ FsmIdle /\ UNCHANGED io_failed

FUpdate ==
  \E pid \in FsmPageIds, free_bytes \in FsmFrees :
    /\ fsm' = FsmUpdate(fsm, pid, free_bytes)
    /\ last' = [op |-> "Update", status |-> "OK", pid |-> pid, bytes |-> free_bytes]
    /\ FsmIdle /\ UNCHANGED io_failed

FRemove ==
  \E pid \in FsmPageIds :
    /\ fsm' = FsmRemove(fsm, pid)
    /\ last' = [op |-> "Remove", status |-> "OK", pid |-> pid, bytes |-> 0]
    /\ FsmIdle /\ UNCHANGED io_failed

FRebuild ==
  \E failAt \in 0..MaxPages :
    LET r == RebuildFromSegment(fsm, FsmProbeDisk(failAt))
    IN /\ Struck(r.s)
       /\ fsm' = r.fsm
       /\ io_failed' = io_failed + (IF r.s.failed THEN 1 ELSE 0)
       /\ last' = [op |-> "Rebuild", status |-> r.status, pid |-> kInvalidPageId,
                   bytes |-> 0]
       /\ FsmIdle

FFind ==
  \E need_bytes \in FsmFrees :
    \E pick \in FsmFind(fsm, need_bytes) :
      /\ last' = [op |-> "Find", status |-> "OK", pid |-> pick, bytes |-> need_bytes]
      /\ FsmIdle /\ UNCHANGED <<fsm, io_failed>>

FsmNext == FRegister \/ FUpdate \/ FRemove \/ FRebuild \/ FFind

SpecFsm == FsmInit /\ [][FsmNext]_vars

---------------------------------------------------------------------------
(* The SegmentManager on its own: SpecSeg.  Every AllocatePage and         *)
(* FreePage call on the one segment is a step.  durable is the history of  *)
(* the FreePage calls, each with whether its page was handed out again.    *)

\* number of SegmentManager calls in a run
MaxSegOps == 6

SegInit ==
  /\ frames = [f \in FrameIds |-> NewFrame]
  /\ table = EmptyTable
  /\ free_list = [i \in 1..NumFrames |-> i - 1]
  /\ replacer = NewReplacer("clock")
  /\ now = 1
  /\ stats = ZeroStats
  /\ disk = <<>>
  /\ fsm = NewFsm
  /\ sm_free = <<>>
  /\ pg = ZeroPage /\ iter = NoIter /\ mu = 0 /\ segs = <<>> /\ durable = <<>>
  /\ io_failed = 0 /\ steps = 0
  /\ last = [op |-> "none", pid |-> kInvalidPageId]

\* the FreePage calls whose page was not handed out again
Pending(hist) == {i \in 1..Len(hist) : ~hist[i].reused}

\* the history once AllocatePage returned pid: the latest pending FreePage(pid),
\* if there is one, is no longer pending
Reused(hist, pid) ==
  LET mine == {i \in Pending(hist) : hist[i].pid = pid}
  IN IF mine = {} THEN hist
     ELSE [hist EXCEPT ![CHOOSE i \in mine : \A j \in mine : j <= i].reused = TRUE]

SAlloc ==
  \E failAt \in 0..1 :
    LET r == AllocatePage(Heap(failAt))
    IN /\ steps < MaxSegOps
       /\ Struck(r.h.s)
       /\ Len(r.h.s.disk) <= MaxPages
       /\ Commit(r.h.s)
       /\ sm_free' = r.h.sm_free
       /\ durable' = Reused(durable, r.pid)
       /\ last' = [op |-> "Alloc", pid |-> r.pid]
       /\ steps' = steps + 1
       /\ UNCHANGED <<mu, segs, iter, pg, fsm>>

\* the caller frees a page of the file
SFree ==
  \E pid \in PageIds :
    /\ steps < MaxSegOps
    /\ pid < Len(disk)
    /\ sm_free' = FreePage(Heap(0), pid).sm_free
    /\ durable' = Append(durable, [pid |-> pid, reused |-> FALSE])
    /\ last' = [op |-> "Free", pid |-> pid]
    /\ steps' = steps + 1
    /\ UNCHANGED <<mu, segs, iter, pg, fsm, frames, table, free_list, replacer, now, stats,
                   disk, io_failed>>

SegNext == SAlloc \/ SFree

SpecSeg == SegInit /\ [][SegNext]_vars

---------------------------------------------------------------------------
(* The SegmentManager and its mutex: SpecSegLock.  Two threads call        *)
(* EnsureSegment, AllocatePage and FreePage.  A step is the lock_guard     *)
(* taking mu_, the body of the method run under it, or the guard's         *)
(* destructor.  last[T] is thread T's call: its position pc, the method,   *)
(* its arguments and the page id it returned.                              *)

Callers == {1, 2}

SegIds == {0, 1}

\* number of SegmentManager calls in a run
MaxSegCalls == 3

\* EnsureSegment: Segment s; s.disk = a DiskManager on a new file; no free page
NewSegment == [disk |-> <<>>, free_list |-> <<>>]

\* EnsureSegment under the lock: segs_.emplace unless the segment is there
EnsureSegmentBody(sg, seg) ==
  IF seg \in DOMAIN sg THEN sg
  ELSE [q \in DOMAIN sg \cup {seg} |-> IF q = seg THEN NewSegment ELSE sg[q]]

\* the segment seg as AllocatePage works on it: its disk and its free_list
SegHeap(sg, seg, failAt) ==
  [s |-> [disk |-> sg[seg].disk, failAt |-> failAt, io |-> 0, failed |-> FALSE],
   sm_free |-> sg[seg].free_list]

\* AllocatePage under the lock, the segment found; r: what the allocation gave
AllocStored(sg, seg, r) ==
  [pid |-> r.pid, failed |-> r.h.s.failed,
   segs |-> [sg EXCEPT ![seg] = [disk |-> r.h.s.disk, free_list |-> r.h.sm_free]]]

AllocateIn(sg, seg, failAt) == AllocStored(sg, seg, AllocatePage(SegHeap(sg, seg, failAt)))

\* FreePage under the lock: nothing for a segment that is not there
FreeIn(sg, seg, pid) ==
  IF seg \notin DOMAIN sg THEN sg
  ELSE [sg EXCEPT ![seg].free_list = Append(@, pid)]

NoSegCall ==
  [pc |-> "idle", op |-> "none", seg |-> 0, pid |-> kInvalidPageId, failed |-> FALSE]

SegLockInit ==
  /\ mu = 0 /\ segs = <<>>
  /\ last = [T \in Callers |-> NoSegCall]
  /\ steps = 0 /\ io_failed = 0
  /\ frames = <<>> /\ table = <<>> /\ free_list = <<>> /\ replacer = <<>>
  /\ now = 0 /\ stats = <<>> /\ disk = <<>> /\ fsm = <<>> /\ sm_free = <<>>
  /\ durable = <<>> /\ pg = ZeroPage /\ iter = NoIter

\* what the SegmentManager calls leave alone
SegLockIdle ==
  UNCHANGED <<iter, pg, frames, table, free_list, replacer, now, stats, disk,
              fsm, sm_free, durable>>

\* a thread calls a method; the lock_guard is about to take mu_
LkCall ==
  \E T \in Callers, seg \in SegIds,
     c \in {[op |-> "EnsureSegment", pid |-> kInvalidPageId],
            [op |-> "AllocatePage", pid |-> kInvalidPageId]}
           \cup {[op |-> "FreePage", pid |-> p] : p \in {0, 1}} :
    /\ last[T].pc = "idle"
    /\ steps < MaxSegCalls
    /\ last' = [last EXCEPT ![T] = [pc |-> "lock", op |-> c.op, seg |-> seg,
                                    pid |-> c.pid, failed |-> FALSE]]
    /\ steps' = steps + 1
    /\ SegLockIdle /\ UNCHANGED <<mu, segs, io_failed>>

\* std::lock_guard<std::mutex> g(mu_), by a thread that does not hold mu_
LkLock ==
  \E T \in Callers :
    /\ last[T].pc = "lock"
    /\ mu = 0
    /\ mu' = T
    /\ last' = [last EXCEPT ![T].pc = "body"]
    /\ SegLockIdle /\ UNCHANGED <<segs, io_failed, steps>>

\* EnsureSegment and FreePage under mu_
LkBody ==
  \E T \in Callers :
    /\ last[T].pc = "body"
    /\ last[T].op \in {"EnsureSegment", "FreePage"}
    /\ segs' = IF last[T].op = "EnsureSegment"
               THEN EnsureSegmentBody(segs, last[T].seg)
               ELSE FreeIn(segs, last[T].seg, last[T].pid)
    /\ last' = [last EXCEPT ![T].pc = "unlock"]
    /\ SegLockIdle /\ UNCHANGED <<mu, io_failed, steps>>

\* AllocatePage under mu_, the segment found: pop the free list or grow
LkAlloc ==
  \E T \in Callers, failAt \in 0..1 :
    /\ last[T].pc = "body"
    /\ last[T].op = "AllocatePage"
    /\ last[T].seg \in DOMAIN segs
    /\ LET r == AllocateIn(segs, last[T].seg, failAt)
       IN /\ failAt = 0 \/ (r.failed /\ io_failed < MaxIoFailures)
          /\ segs' = r.segs
          /\ io_failed' = io_failed + (IF r.failed THEN 1 ELSE 0)
          /\ last' = [last EXCEPT ![T].pc = "unlock", ![T].pid = r.pid,
                                  ![T].failed = r.failed]
    /\ SegLockIdle /\ UNCHANGED <<mu, steps>>

\* AllocatePage under mu_, the segment not found: it calls EnsureSegment
LkMissing ==
  \E T \in Callers :
    /\ last[T].pc = "body"
    /\ last[T].op = "AllocatePage"
    /\ last[T].seg \notin DOMAIN segs
    /\ last' = [last EXCEPT ![T].pc = "relock"]
    /\ SegLockIdle /\ UNCHANGED <<mu, segs, io_failed, steps>>

\* EnsureSegment's lock_guard takes mu_, a std::mutex the calling thread
\* already holds: undefined behaviour.  The thread blocks for ever on its own
\* mutex, or (a build in which the mutex calls do nothing) goes on: the
\* segment is created and AllocatePage finds it
LkRelock ==
  \E T \in Callers, blocks \in BOOLEAN :
    /\ last[T].pc = "relock"
    /\ mu = T
    /\ segs' = IF blocks THEN segs ELSE EnsureSegmentBody(segs, last[T].seg)
    /\ last' = [last EXCEPT ![T].pc = IF blocks THEN "blocked" ELSE "body"]
    /\ SegLockIdle /\ UNCHANGED <<mu, io_failed, steps>>

\* the lock_guard's destructor; the method returns
LkUnlock ==
  \E T \in Callers :
    /\ last[T].pc = "unlock"
    /\ mu' = 0
    /\ last' = [last EXCEPT ![T].pc = "idle"]
    /\ SegLockIdle /\ UNCHANGED <<segs, io_failed, steps>>

SegLockNext ==
  LkCall \/ LkLock \/ LkBody \/ LkAlloc \/ LkMissing \/ LkRelock \/ LkUnlock

\* a thread that can take a step is scheduled in the end
SpecSegLock ==
  /\ SegLockInit /\ [][SegLockNext]_vars
  /\ WF_vars(LkLock) /\ WF_vars(LkBody) /\ WF_vars(LkAlloc)
  /\ WF_vars(LkMissing) /\ WF_vars(LkRelock) /\ WF_vars(LkUnlock)

---------------------------------------------------------------------------
(* Two threads, each running one TableHeap::Insert on the same heap.  A    *)
(* step is what one thread does under one mutex (a BufferPoolManager or    *)
(* FreeSpaceManager call) or, between FetchPage and UnpinPage where no     *)
(* mutex is held, one group of loads and stores of SlottedPage::Insert on  *)
(* the frame.  last[T] is thread T's call: its position pc and its locals. *)

Threads == {1, 2}

\* thread T inserts one byte of its own
ThreadTuple(T) == [size |-> 1, fill |-> T]

\* the tuple the table holds before the threads start
ConcSeeds == {[size |-> 1, fill |-> 1], [size |-> MidLen, fill |-> 1]}

\* a fresh segment file, FSM and pool, as a heap state
FreshHeap ==
  [s |-> [frames |-> [f \in FrameIds |-> NewFrame], table |-> EmptyTable,
          free_list |-> [i \in 1..NumFrames |-> i - 1],
          rep |-> NewReplacer("clock"), now |-> 1, stats |-> ZeroStats,
          disk |-> <<>>, tick |-> 1, failAt |-> 0, io |-> 0, failed |-> FALSE,
          log |-> <<>>],
   fsm |-> RegisterSegmentProbe(NewFsm),
   sm_free |-> <<>>]

NewCall(T) ==
  [pc |-> "start", t |-> ThreadTuple(T), pid |-> kInvalidPageId, fid |-> -1,
   reuse |-> 0, rec_off |-> 0, slot |-> 0, status |-> "OK", rid |-> NoRid]

\* the threads start on the heap h that one insert by the main thread left
ConcStart(h) ==
  /\ frames = h.s.frames /\ table = h.s.table /\ free_list = h.s.free_list
  /\ replacer = h.s.rep /\ now = h.s.now /\ stats = h.s.stats
  /\ disk = h.s.disk /\ fsm = h.fsm /\ sm_free = h.sm_free
  /\ pg = ZeroPage /\ iter = NoIter /\ mu = 0 /\ segs = <<>> /\ durable = <<>> /\ io_failed = 0 /\ steps = 0
  /\ last = [T \in Threads |-> NewCall(T)]

ConcInit ==
  \E t0 \in ConcSeeds : ConcStart(HeapInsert(FreshHeap, t0, kInvalidPageId).h)

\* the shared state after a step, and thread T's call after it
ConcCommit(h, T, call) ==
  /\ Commit(h.s)
  /\ fsm' = h.fsm
  /\ sm_free' = h.sm_free
  /\ last' = [last EXCEPT ![T] = call]
  /\ UNCHANGED <<mu, segs, iter, pg, durable, steps>>

\* a call that returned
Returned(call, status, rid) ==
  [call EXCEPT !.pc = "done", !.status = status, !.rid = rid]

\* TableHeap::Insert, steps 1 and 2: fsm_->Find, and with no page found the
\* allocation of a new one, each call under its own mutex
CFind ==
  \E T \in Threads :
    /\ last[T].pc = "start"
    /\ \E pick \in FsmFind(fsm, U16(last[T].t.size)) :
         IF pick # kInvalidPageId
         THEN ConcCommit(Heap(0), T, [last[T] EXCEPT !.pc = "fetch", !.pid = pick])
         ELSE LET n == HeapNewPage(Heap(0))
              IN IF n.status # "OK"
                 THEN ConcCommit(n.h, T, Returned(last[T], n.status, NoRid))
                 ELSE ConcCommit(n.h, T, [last[T] EXCEPT !.pc = "fetch", !.pid = n.pid])

\* TableHeap::Insert, step 3: bpm_->FetchPage(pid), under the pool's mutex
CFetch ==
  \E T \in Threads :
    /\ last[T].pc = "fetch"
    /\ LET f == HeapFetch(Heap(0), last[T].pid)
       IN IF f.status # "OK"
          THEN ConcCommit(f.h, T, Returned(last[T], f.status, NoRid))
          ELSE ConcCommit(f.h, T, [last[T] EXCEPT !.pc = "scan", !.fid = f.fid])

\* SlottedPage::Insert, parts 1 and 2: the tombstone scan and the space
\* check, with Compact() when the contiguous free space is short
CScan ==
  \E T \in Threads :
    /\ last[T].pc = "scan"
    /\ LET p == frames[last[T].fid].data
           reuse == FirstTombstone(p)
           need == U16(last[T].t.size) + (IF reuse # 0 THEN 0 ELSE SlotSize)
       IN IF p.free_size >= need
          THEN ConcCommit(Heap(0), T, [last[T] EXCEPT !.pc = "copy", !.reuse = reuse])
          ELSE IF Compact(p).free_size >= need
          THEN ConcCommit(SetFrameData(Heap(0), last[T].fid, Compact(p)), T,
                          [last[T] EXCEPT !.pc = "copy", !.reuse = reuse])
          ELSE ConcCommit(SetFrameData(Heap(0), last[T].fid, Compact(p)), T,
                          [last[T] EXCEPT !.pc = "retry", !.status = "OutOfRange"])

\* SlottedPage::Insert, part 3: memmove of the record to free_off, which is
\* kept as rec_off
CCopy ==
  \E T \in Threads :
    /\ last[T].pc = "copy"
    /\ LET p == frames[last[T].fid].data
       IN ConcCommit(SetFrameData(Heap(0), last[T].fid,
                                  [p EXCEPT !.body = MemWrite(p.body, p.free_off, last[T].t,
                                                              U16(last[T].t.size))]),
                     T, [last[T] EXCEPT !.pc = "bump", !.rec_off = p.free_off])

\* SlottedPage::Insert, part 3: free_off and free_size move by len
CBump ==
  \E T \in Threads :
    /\ last[T].pc = "bump"
    /\ LET p == frames[last[T].fid].data
       IN ConcCommit(SetFrameData(Heap(0), last[T].fid,
                                  [p EXCEPT !.free_off = U16(p.free_off + U16(last[T].t.size)),
                                            !.free_size = U16(p.free_size - U16(last[T].t.size))]),
                     T, [last[T] EXCEPT !.pc = "slot"])

\* SlottedPage::Insert, part 4: the slot id, the reused tombstone or the
\* slot_count read now
CSlotRead ==
  \E T \in Threads :
    /\ last[T].pc = "slot"
    /\ ConcCommit(Heap(0), T,
                  [last[T] EXCEPT !.pc = "slotw",
                                  !.slot = IF last[T].reuse # 0 THEN last[T].reuse - 1
                                           ELSE frames[last[T].fid].data.slot_count])

\* the directory with entry e stored at slot id
SlotStore(slots, id, e) ==
  IF id + 1 <= Len(slots) THEN [slots EXCEPT ![id + 1] = e]
  ELSE Append(slots, e)

\* SlottedPage::Insert, part 4: for a new slot, slot_count becomes the slot
\* id read plus one and free_size pays for the slot; then the entry is
\* stored
CSlotWrite ==
  \E T \in Threads :
    /\ last[T].pc = "slotw"
    /\ LET p == frames[last[T].fid].data
           e == [off |-> last[T].rec_off, len |-> U16(last[T].t.size)]
           q == IF last[T].reuse # 0 THEN p
                ELSE [p EXCEPT !.slot_count = U16(last[T].slot + 1),
                               !.free_size = U16(p.free_size - SlotSize)]
       IN ConcCommit(SetFrameData(Heap(0), last[T].fid,
                                  [q EXCEPT !.slots = SlotStore(p.slots, last[T].slot, e)]),
                     T, [last[T] EXCEPT !.pc = "report"])

\* TableHeap::Insert, step 3: UpdateFsmForPage reads free_size from the
\* frame and calls fsm_->Update
CReport ==
  \E T \in Threads :
    /\ last[T].pc = "report"
    /\ ConcCommit(UpdateFsmForPage(Heap(0), last[T].pid, last[T].fid), T,
                  [last[T] EXCEPT !.pc = "unpin"])

\* TableHeap::Insert, step 3: UnpinPage(pid, dirty) and the rid returned
CUnpin ==
  \E T \in Threads :
    /\ last[T].pc = "unpin"
    /\ ConcCommit(HeapUnpin(Heap(0), last[T].pid, TRUE), T,
                  Returned(last[T], "OK",
                           [page_id |-> last[T].pid, slot |-> last[T].slot]))

\* TableHeap::Insert, step 3, the page refused the record: unpin it clean,
\* allocate a new page and insert there
CRetry ==
  \E T \in Threads :
    /\ last[T].pc = "retry"
    /\ LET r == RetryAllocated(AllocatePage(HeapUnpin(Heap(0), last[T].pid, FALSE)),
                               last[T].status, last[T].t, U16(last[T].t.size))
       IN ConcCommit(r.h, T, Returned(last[T], r.status, r.rid))

ConcNext ==
  \/ CFind \/ CFetch \/ CScan \/ CCopy \/ CBump
  \/ CSlotRead \/ CSlotWrite \/ CReport \/ CUnpin \/ CRetry

SpecConc == ConcInit /\ [][ConcNext]_vars

---------------------------------------------------------------------------
(* A replacer on its own: every Pin, Unpin and Victim call is one step.    *)
(* durable, which the replacer does not have, records for each frame the   *)
(* times of its Unpin calls, oldest first.                                 *)

RepIds == 0..(RepFrames - 1)

\* steady_clock between two readings: the same value, or a later one
RepTicks == {0, 1}

RepInit ==
  /\ replacer \in {NewReplacerCap("clock", RepFrames), NewReplacerCap("lruk", RepFrames)}
  /\ now = 1
  /\ durable = [f \in RepIds |-> <<>>]
  /\ last = [op |-> "none", fid |-> -1, found |-> FALSE]
  /\ frames = <<>> /\ table = EmptyTable /\ free_list = <<>>
  /\ stats = ZeroStats /\ disk = <<>> /\ fsm = <<>> /\ sm_free = <<>>
  /\ pg = ZeroPage /\ iter = NoIter /\ mu = 0 /\ segs = <<>> /\ io_failed = 0 /\ steps = 0

\* what the replacer calls leave alone
RepIdle ==
  /\ steps' = steps + 1
  /\ UNCHANGED <<mu, segs, iter, pg, frames, table, free_list, stats, disk, fsm, sm_free, io_failed>>

RPin ==
  \E fid \in RepIds :
    /\ steps < MaxRepOps
    /\ replacer' = ReplacerPin(replacer, fid)
    /\ last' = [op |-> "Pin", fid |-> fid, found |-> FALSE]
    /\ RepIdle /\ UNCHANGED <<now, durable>>

RUnpin ==
  \E fid \in RepIds, tick \in RepTicks :
    /\ steps < MaxRepOps
    /\ replacer' = ReplacerUnpin(replacer, fid, now + tick)
    /\ now' = now + tick
    /\ durable' = [durable EXCEPT ![fid] = Append(@, now + tick)]
    /\ last' = [op |-> "Unpin", fid |-> fid, found |-> FALSE]
    /\ RepIdle

RVictim ==
  /\ steps < MaxRepOps
  /\ replacer' = ReplacerVictim(replacer).rep
  /\ last' = [op |-> "Victim", fid |-> ReplacerVictim(replacer).fid,
              found |-> ReplacerVictim(replacer).found]
  /\ RepIdle /\ UNCHANGED <<now, durable>>

RepNext == RPin \/ RUnpin \/ RVictim

SpecRep == RepInit /\ [][RepNext]_vars

---------------------------------------------------------------------------
(* Claims settled on the buffer pool *)

Resident(f) == frames[f].page_id # kInvalidPageId

\* C1 as claimed: no two frames hold the same page id; every resident page id
\* is mapped by the page table to the frame holding it, and no two table
\* entries point to the same frame.
C1_OneFramePerPage ==
  /\ \A f, g \in FrameIds :
       (f # g /\ Resident(f)) => frames[f].page_id # frames[g].page_id
  /\ \A f \in FrameIds :
       Resident(f) => (frames[f].page_id \in DOMAIN table
                       /\ table[frames[f].page_id] = f)
  /\ \A p, q \in DOMAIN table : p # q => table[p] # table[q]

\* C1 with every system call succeeding
C1_NoFailure == io_failed = 0 => C1_OneFramePerPage

\* C2: a frame with pin_count > 0 is not in the replacer's candidate set.
C2_PinnedNotCandidate ==
  \A f \in FrameIds : frames[f].pin_count > 0 => ~replacer.present[f]

\* a fetch hit that pinned again a frame that was an eviction candidate,
\* while another frame is a candidate
C2_Witness ==
  /\ last.op = "Fetch" /\ last.status = "OK" /\ last.hit
  /\ frames[last.fid].pin_count = 1
  /\ \E g \in FrameIds : replacer.present[g]

\* C3 as claimed: while a page is pinned it stays in the page table, mapped
\* to the same frame, whatever call is made.
C3_PinnedStaysMapped ==
  [][\A p \in DOMAIN table :
       (frames[table[p]].pin_count > 0 /\ frames[table[p]].page_id = p)
         => /\ p \in DOMAIN table'
            /\ table'[p] = table[p]
            /\ frames'[table[p]].page_id = p]_vars

\* C3 with every system call succeeding
C3_NoFailure ==
  [][io_failed' = 0 =>
     \A p \in DOMAIN table :
       (frames[table[p]].pin_count > 0 /\ frames[table[p]].page_id = p)
         => /\ p \in DOMAIN table'
            /\ table'[p] = table[p]
            /\ frames'[table[p]].page_id = p]_vars

\* C4: with no disk failure, a successful fetch of a page whose writes were
\* all followed by unpin(dirty = true) returns the content the page had at
\* its last such unpin; a page that is not resident has that content on disk
\* (a dirty victim was written back before its frame was rebound).
C4_FetchReturnsLastWrite ==
  io_failed = 0 =>
    /\ (last.op = "Fetch" /\ last.status = "OK"
          /\ durable[last.pid].track = "clean")
         => frames[last.fid].data = durable[last.pid].data
    /\ \A p \in PageIds :
         (p \notin DOMAIN table /\ durable[p].track = "clean")
           => (p + 1 <= Len(disk) /\ disk[p + 1] = durable[p].data)

\* a fetch miss reloads a page that was written, unpinned dirty and evicted
C4_Witness ==
  /\ io_failed = 0
  /\ last.op = "Fetch" /\ last.status = "OK" /\ ~last.hit
  /\ durable[last.pid].track = "clean"
  /\ durable[last.pid].data.page_lsn > 0
  /\ stats.evictions > 0 /\ stats.flushes > 0

---------------------------------------------------------------------------
(* Claims settled on the table heap *)

\* what TableHeap::Get(rid) returns when called in the current state with all
\* system calls succeeding
GetNow(rid) == HeapGet(Heap(0), rid)

\* the call just made leaves the record at rid alone
OtherThan(rid, call) == ~(call.op \in {"Update", "Erase"} /\ call.rid = rid)

\* the page a fetch of pid finds: the resident frame, else the disk page
PageSeen(pid) ==
  IF pid \in DOMAIN table THEN frames[table[pid]].data
  ELSE IF pid + 1 <= Len(disk) THEN disk[pid + 1] ELSE ZeroPage

\* the record a get of rid finds
Seen(rid) ==
  IF rid.page_id \notin DOMAIN table /\ rid.page_id + 1 > Len(disk)
  THEN [status |-> "NotFound", bytes |-> <<>>]
  ELSE SlottedGet(PageSeen(rid.page_id), rid.slot)

\* Seen is what TableHeap::Get returns
SeenIsGet ==
  \A rid \in HeapRids :
    /\ GetNow(rid).status = Seen(rid).status
    /\ GetNow(rid).bytes = Seen(rid).bytes

RidStableStep ==
  /\ \A rid \in HeapRids :
       (Seen(rid).status = "OK" /\ OtherThan(rid, last')) => Seen(rid)' = Seen(rid)
  /\ (last'.op = "Insert" /\ last'.status = "OK")
       => Seen(last'.rid).status # "OK"

\* C5 as claimed: a call on other records, with whatever compaction and
\* eviction it causes, leaves get(rid) of a live record unchanged, and insert
\* never returns the RID of a live record.
C5_RidStable == [][RidStableStep]_vars

\* C5 with every system call succeeding
C5_NoFailure == [][io_failed' = 0 => RidStableStep]_vars

\* C6 as claimed: after insert(t) returned OK with rid, get(rid) returns OK
\* with a tuple of the size and bytes of t.
C6_InsertGetRoundTrip ==
  (last.op = "Insert" /\ last.status = "OK")
    => LET g == GetNow(last.rid)
       IN /\ g.status = "OK"
          /\ Len(g.bytes) = last.t.size
          /\ g.bytes = RecBytes(last.t, Len(g.bytes))

\* C6 for the tuples whose size fits in 16 bits
C6_SmallTuples == last.t.size < U16Mod => C6_InsertGetRoundTrip

\* TableIterator: the rids a full scan stops at (pages 0 .. PageCount - 1,
\* slots below slot_count whose Get succeeds)
ScanRids ==
  {rid \in HeapRids : rid.page_id < Len(disk) /\ Seen(rid).status = "OK"}

\* the bytes are those of tuple t
IsTuple(bytes, t) == Len(bytes) = t.size /\ bytes = RecBytes(t, Len(bytes))

\* number of scanned records equal to t
Copies(t) == Cardinality({rid \in ScanRids : IsTuple(Seen(rid).bytes, t)})

RelocatedStep ==
  (last'.op = "Update" /\ last'.status = "OK" /\ last'.moved)
    => \A rid, nrid \in HeapRids :
         (rid = last'.rid /\ nrid = last'.new_rid)
           => /\ Seen(rid)'.status = "NotFound"
              /\ nrid # rid
              /\ Seen(nrid).status # "OK"
              /\ Seen(nrid)'.status = "OK"
              /\ IsTuple(Seen(nrid)'.bytes, last'.t)
              /\ ScanRids' \ (ScanRids \ {rid}) = {nrid}

\* C11: when update(rid, t2) relocates the record and returns OK, get(rid)
\* returns NotFound, and the scan gains exactly one record, at a rid that held
\* none before, and that record equals t2 (never zero copies, never both old
\* and new).
C11_RelocationKeepsOneCopy == [][RelocatedStep]_vars

\* C11 for the tuples whose size fits in 16 bits
C11_SmallTuples == [][last'.t.size < U16Mod => RelocatedStep]_vars

\* an update relocated a record to another page while another record lives
C11_Witness ==
  /\ last.op = "Update" /\ last.status = "OK" /\ last.moved
  /\ Cardinality(ScanRids) >= 2
  /\ Copies(last.t) = 1

---------------------------------------------------------------------------
(* Claims settled on the stand-alone slotted page *)

LiveIds(p) == {i \in 0..(p.slot_count - 1) : p.slots[i + 1].len # 0}

\* C7: after init_new and after every insert, update and erase, successful or
\* failed, free_off + free_size + slot_count * sizeof(Slot) = page_size and
\* free_off >= sizeof(PageHeader).
C7_HeaderAccounting ==
  /\ pg.free_off + pg.free_size + pg.slot_count * SlotSize = PageSize
  /\ pg.free_off >= HeaderSize

\* an insert that compacted the page and still failed, two slots in the directory
C7_Witness ==
  /\ last.op = "Insert" /\ last.status = "OutOfRange" /\ last.compacted
  /\ pg.slot_count >= 2

\* C8: every live slot lies between the header and free_off, and free_off
\* lies below the slot directory.
C8_LiveSlotsInside ==
  /\ \A i \in LiveIds(pg) :
       /\ pg.slots[i + 1].off >= HeaderSize
       /\ pg.slots[i + 1].off + pg.slots[i + 1].len <= pg.free_off
  /\ pg.free_off + pg.slot_count * SlotSize <= PageSize

\* an update that had to compact and then appended the longer copy
C8_Witness ==
  /\ last.op = "Update" /\ last.status = "OK" /\ last.compacted
  /\ last.len > last.old_len
  /\ Cardinality(LiveIds(pg)) >= 2

\* C9: a compaction (run inside insert or update) keeps slot_count, keeps
\* every tombstone a tombstone and leaves get(i) of every live slot i with the
\* same length and bytes; the call that compacted changes only its own slot.
C9_CompactionPreserves ==
  [][last'.compacted =>
       LET c == Compact(pg)
           target == IF last'.status = "OK" THEN {last'.slot} ELSE {}
       IN /\ c.slot_count = pg.slot_count
          /\ \A i \in 0..(pg.slot_count - 1) : SlottedGet(c, i) = SlottedGet(pg, i)
          /\ \A i \in (0..(pg.slot_count - 1)) \ target :
               SlottedGet(pg', i) = SlottedGet(pg, i)
          /\ pg'.slot_count >= pg.slot_count
          /\ last'.status # "OK" => pg' = c]_vars

\* an insert whose compaction moved a live record, another live record present
C9_Witness ==
  /\ last.op = "Insert" /\ last.status = "OK" /\ last.moved
  /\ Cardinality(LiveIds(pg)) >= 2

\* C10 as claimed: an update with len <= old_len that returns OK is followed
\* by a get returning OK with exactly the new bytes.
C10_InPlaceUpdateRoundTrip ==
  (last.op = "Update" /\ last.status = "OK" /\ last.len <= last.old_len)
    => SlottedGet(pg, last.slot) =
         [status |-> "OK", bytes |-> RecBytes(last.rec, last.len)]

\* page-level half of C6: a successful insert is followed by a get of the
\* returned slot giving back the inserted bytes
PageInsertGetRoundTrip ==
  (last.op = "Insert" /\ last.status = "OK")
    => SlottedGet(pg, last.slot) =
         [status |-> "OK", bytes |-> RecBytes(last.rec, last.len)]

---------------------------------------------------------------------------
(* Claims settled on the buffer pool's failure paths *)

\* the call just made ran the pre-flush hook for a victim and the write of
\* the victim did not succeed
VictimFlushFailed(call) ==
  /\ call.op \in {"Fetch", "NewPage"}
  /\ Len(call.log) >= 2
  /\ call.log[1][1] = "hook"
  /\ call.log[2][1] = "fail"

AbortedEvictionStep ==
  VictimFlushFailed(last')
    => \A v \in PageIds :
         v = last'.log[1][2]
           => /\ v \in DOMAIN table'
              /\ table'[v] = table[v]
              /\ frames'[table[v]] = frames[table[v]]
              /\ stats'.evictions = stats.evictions

\* C15: when the write of a dirty victim fails during frame acquisition, the
\* victim stays mapped to its frame, the frame keeps its page, bytes and
\* dirty flag, and no eviction is counted.
C15_FailedFlushAbortsEviction == [][AbortedEvictionStep]_vars

\* the call just made is a fetch whose disk read failed
FetchReadFailed(call) ==
  call.op = "Fetch" /\ call.status \in {"NotFound", "IOError"}

FailedFetchStep ==
  FetchReadFailed(last')
    => /\ last'.pid \notin DOMAIN table'
       /\ free_list' # <<>>
       /\ free_list # <<>> => free_list' = free_list
       /\ free_list = <<>> => Len(free_list') = 1
       /\ \A f \in FrameIds :
            f = Head(free_list')
              => /\ frames'[f].page_id = kInvalidPageId
                 /\ frames'[f].pin_count = 0
                 /\ ~frames'[f].dirty
                 /\ ~replacer'.present[f]
                 /\ \A p \in DOMAIN table' : table'[p] # f
       /\ stats'.hits = stats.hits
       /\ stats'.misses = stats.misses

\* C16: a fetch(pid) whose disk read fails returns the error and leaves pid
\* out of the page table; the frame it acquired is back at the head of the
\* free list with no page, pin count 0, clean and not a replacer candidate,
\* and neither hits nor misses are counted.
C16_FailedFetchCleansUp == [][FailedFetchStep]_vars

\* a fetch whose read failed after it evicted a victim to get its frame
C16_Witness ==
  /\ FetchReadFailed(last) /\ last.status = "IOError"
  /\ stats.evictions > 0
  /\ Len(free_list) = 1

\* C17: every page write the buffer pool issues, in any operation, comes
\* right after a call of the pre-flush hook with that page's id and the
\* page_lsn of the bytes written.
C17_HookBeforeEveryWrite ==
  \A i \in 1..Len(last.log) :
    last.log[i][1] \in {"write", "fail"}
      => /\ i > 1
         /\ last.log[i - 1] = <<"hook", last.log[i][2], last.log[i][3]>>

\* C17 for the writes of dirty pages, which FlushFrame issues: those of
\* every call but NewPage's own write of the zero page
C17_FlushFrameWrites ==
  \A i \in 1..Len(last.log) :
    (last.log[i][1] \in {"write", "fail"}
       /\ ~(last.op = "NewPage" /\ i = Len(last.log)))
      => /\ i > 1
         /\ last.log[i - 1] = <<"hook", last.log[i][2], last.log[i][3]>>

FlushedStep ==
  \A p \in PageIds :
    (/\ last'.op = "Flush" /\ last'.status = "OK" /\ last'.pid = p
     /\ p \in DOMAIN table
     /\ frames[table[p]].dirty)
      => /\ p + 1 <= Len(disk')
         /\ disk'[p + 1] = frames'[table[p]].data
         /\ ~frames'[table[p]].dirty

\* C18: when flush(p) returns OK for a resident page p that was unpinned
\* dirty, the bytes of page p on disk are the frame's bytes and the frame is
\* clean.
C18_FlushMakesDurable == [][FlushedStep]_vars

\* C18 with every system call succeeding
C18_NoFailure == [][io_failed' = 0 => FlushedStep]_vars

\* a flush of a dirty page wrote bytes that differ from those on disk before
C18_Witness ==
  /\ last.op = "Flush" /\ last.status = "OK"
  /\ Len(last.log) = 2 /\ last.log[2][1] = "write"
  /\ last.log[2][3] > 0

UnpinRefusedStep ==
  \A p \in PageIds :
    (last'.op = "Unpin" /\ last'.pid = p)
      => /\ (p \in DOMAIN table /\ frames[table[p]].pin_count = 0)
              => /\ last'.status = "InvalidArgument"
                 /\ frames' = frames
                 /\ replacer' = replacer
                 /\ table' = table
         /\ p \notin DOMAIN table
              => /\ last'.status = "NotFound"
                 /\ frames' = frames
                 /\ replacer' = replacer
         /\ \A f \in FrameIds : frames'[f].pin_count >= 0

\* C19: unpin(pid, dirty) of a resident page with pin count 0 returns
\* InvalidArgument and changes nothing: the pin count stays 0, the dirty flag
\* is not set and the replacer is as before; unpin of a page that is not
\* resident returns NotFound.
C19_UnpinAtZeroRefused == [][UnpinRefusedStep]_vars

\* an unpin with the dirty hint was refused on a clean page at pin count 0
\* that is an eviction candidate
C19_Witness ==
  /\ last.op = "Unpin" /\ last.status = "InvalidArgument" /\ last.hit
  /\ last.fid \in FrameIds
  /\ frames[last.fid].pin_count = 0
  /\ ~frames[last.fid].dirty
  /\ replacer.present[last.fid]

\* the free list is empty and every frame is pinned
NoFrameAvailable ==
  free_list = <<>> /\ \A f \in FrameIds : frames[f].pin_count > 0

UnavailableStep ==
  \A p \in PageIds :
    (last'.op = "Fetch" /\ last'.pid = p /\ p \notin DOMAIN table)
      => /\ last'.status = "Unavailable" <=> NoFrameAvailable
         /\ last'.status = "Unavailable"
              => /\ table' = table
                 /\ frames' = frames
                 /\ replacer' = replacer
                 /\ stats' = stats
                 /\ free_list' = free_list

\* C20: fetch of a page that is not resident returns Unavailable exactly
\* when the free list is empty and every frame is pinned, and then the page
\* table, the frames, the replacer and the statistics are as before;
\* whenever a frame is free or has pin count 0 a frame is acquired.
C20_UnavailableIffAllPinned == [][UnavailableStep]_vars

\* a fetch was refused with all frames pinned, after an eviction had taken
\* place
C20_Witness ==
  /\ last.op = "Fetch" /\ last.status = "Unavailable"
  /\ NoFrameAvailable
  /\ stats.evictions > 0

---------------------------------------------------------------------------
(* Claims settled on the FreeSpaceManager under the table heap *)

\* the FSM's recorded free bytes are the free_size of the page's header
FsmMatchesPages ==
  \A pid \in DOMAIN fsm.pid2free : fsm.pid2free[pid] = PageSeen(pid).free_size

\* C14: after each TableHeap insert, update or erase returns, for every page
\* the FSM tracks, the recorded free bytes equal the free_size field now in
\* that page's header.
C14_FsmMatchesPages ==
  last.op \in {"Insert", "Update", "Erase"} => FsmMatchesPages

\* C14 with every system call succeeding
C14_NoFailure == io_failed = 0 => C14_FsmMatchesPages

\* a call changed a tracked page's free bytes and the FSM follows
C14_Witness ==
  /\ last.op = "Erase" /\ last.status = "OK"
  /\ last.rid.page_id \in DOMAIN fsm.pid2free
  /\ FsmMatchesPages

---------------------------------------------------------------------------
(* Claims settled on the FreeSpaceManager *)

\* C12: find(n) returns kInvalidPageId or a tracked page whose recorded free
\* bytes are at least n, after any sequence of update, remove and rebuild.
C12_FindFits ==
  last.op = "Find"
    => \/ last.pid = kInvalidPageId
       \/ /\ last.pid \in DOMAIN fsm.pid2free
          /\ fsm.pid2free[last.pid] >= last.bytes

\* find returned a page while another tracked page, of the same bin, has
\* fewer free bytes than asked for
C12_Witness ==
  /\ last.op = "Find" /\ last.pid # kInvalidPageId
  /\ \E q \in DOMAIN fsm.pid2free :
       /\ fsm.pid2free[q] < last.bytes
       /\ fsm.pid2bin[q] = fsm.pid2bin[last.pid]

\* the bin the header documents for f free bytes: bin i covers
\* [t_{i-1}, t_i), so it is the number of thresholds that are <= f
DocumentedBin(f) == Cardinality({i \in 1..Len(Thresholds) : Thresholds[i] <= f})

\* C13: every tracked page sits in the bin i with t_{i-1} <= f < t_i for
\* its recorded free f; a page whose free bytes equal t_i is in bin i + 1.
C13_HalfOpenBins ==
  \A pid \in DOMAIN fsm.pid2free :
    /\ fsm.pid2bin[pid] = DocumentedBin(fsm.pid2free[pid])
    /\ pid \in fsm.bins[DocumentedBin(fsm.pid2free[pid])]

\* what the code keeps instead: bin i covers (t_{i-1}, t_i], and a page is
\* in that bin only
C13_LowerBoundBins ==
  \A pid \in DOMAIN fsm.pid2free :
    \A b \in DOMAIN fsm.bins :
      pid \in fsm.bins[b]
        <=> (b = fsm.pid2bin[pid] /\ b = BinIndex(fsm.pid2free[pid]))

---------------------------------------------------------------------------
(* Claims settled on two concurrent inserts *)

\* thread T is between FetchPage and UnpinPage, working on the frame's bytes
InPage(T) == last[T].pc \in {"scan", "copy", "bump", "slot", "slotw", "report"}

BothReturnedOK == \A T \in Threads : last[T].pc = "done" /\ last[T].status = "OK"

\* C21: the in-page work of one insert on a page is never interleaved with
\* that of the other, and once both inserts returned OK their rids differ
\* and a get of each rid returns the tuple that thread inserted.
C21_PageAccessSerialized ==
  /\ \A T, U \in Threads :
       (T # U /\ InPage(T) /\ InPage(U)) => last[T].pid # last[U].pid
  /\ BothReturnedOK
       => /\ \A T, U \in Threads : T # U => last[T].rid # last[U].rid
          /\ \A T \in Threads :
               /\ Seen(last[T].rid).status = "OK"
               /\ IsTuple(Seen(last[T].rid).bytes, last[T].t)

\* what two inserts that do not overlap give
C21_DistinctRids ==
  BothReturnedOK => \A T, U \in Threads : T # U => last[T].rid # last[U].rid

\* each thread reads back its own tuple
C21_OwnTuple ==
  BothReturnedOK
    => \A T \in Threads :
         /\ Seen(last[T].rid).status = "OK"
         /\ IsTuple(Seen(last[T].rid).bytes, last[T].t)

---------------------------------------------------------------------------
(* Claims settled on the replacers *)

\* a clock replacer whose frames are all candidates with reference bit 1
AllRefSet ==
  /\ replacer.kind = "clock"
  /\ \A f \in RepIds : replacer.present[f] /\ replacer.ref[f]

\* a clock replacer whose frames are all candidates with reference bit 0
AllRefClear ==
  /\ replacer.kind = "clock"
  /\ \A f \in RepIds : replacer.present[f] /\ ~replacer.ref[f]

FirstVictimCallStep ==
  (AllRefSet /\ last'.op = "Victim")
    => /\ ~last'.found
       /\ \A f \in RepIds : replacer'.present[f] /\ ~replacer'.ref[f]

SecondVictimCallStep ==
  (AllRefClear /\ last'.op = "Victim")
    => last'.found /\ last'.fid = replacer.hand

\* C22: clock replacer, all 3 frames candidates with reference bit 1: the
\* first victim call clears the reference bits and returns no victim; the
\* next victim call returns the first present frame in hand order.
C22_ClockSecondCallEvicts ==
  [][FirstVictimCallStep /\ SecondVictimCallStep]_vars

\* what the code does: the first victim call clears the reference bits and
\* returns the frame under the hand
C22_FirstCallEvicts ==
  [][(AllRefSet /\ last'.op = "Victim")
       => /\ last'.found /\ last'.fid = replacer.hand
          /\ \A f \in RepIds : ~replacer'.ref[f]
          /\ \A f \in RepIds : replacer'.present[f] <=> f # replacer.hand]_vars

ClockVictimStep ==
  (last'.op = "Victim" /\ replacer.kind = "clock") =>
    /\ last'.found <=> \E f \in RepIds : replacer.present[f]
    /\ last'.found =>
         /\ last'.fid \in RepIds /\ replacer.present[last'.fid]
         /\ \A f \in RepIds : replacer'.present[f] <=> (replacer.present[f] /\ f # last'.fid)
    /\ ~last'.found => \A f \in RepIds : ~replacer'.present[f]

\* C34: a clock victim call returns a frame whenever the candidate set is not
\* empty, whatever the hand position and the reference bits: the limit of
\* 2 * capacity steps never ends a sweep that would have found a candidate.
\* The frame returned was a candidate and is one no longer, the other
\* candidates stay; no victim is reported only when there is no candidate.
C34_ClockVictimFindsCandidate == [][ClockVictimStep]_vars

\* a victim call that found its frame on the second lap, after it had cleared
\* the reference bit of another candidate, the frame not being frame 0
C34_Witness ==
  /\ last.op = "Victim" /\ last.found /\ last.fid # 0
  /\ replacer.kind = "clock"
  /\ replacer.hand = (last.fid + 1) % replacer.cap
  /\ \E f \in RepIds : f # last.fid /\ replacer.present[f] /\ ~replacer.ref[f]

\* the key of frame f as the history of its unpins gives it: the second
\* newest time, or the newest when there are fewer than two
HistKey(f) ==
  IF Len(durable[f]) >= 2 THEN durable[f][Len(durable[f]) - 1]
  ELSE durable[f][Len(durable[f])]

Candidates == {f \in RepIds : replacer.present[f]}

LruKVictimStep ==
  (replacer.kind = "lruk" /\ last'.op = "Victim")
    => IF Candidates = {}
       THEN ~last'.found /\ replacer' = replacer
       ELSE /\ last'.found
            /\ \A v \in RepIds :
                 v = last'.fid
                   => /\ v \in Candidates
                      /\ \A g \in Candidates :
                           \/ HistKey(v) < HistKey(g)
                           \/ (HistKey(v) = HistKey(g) /\ v <= g)
                      /\ Candidates' = Candidates \ {v}
            /\ last'.fid \in RepIds

\* C23: LRU-K victim returns the candidate with the smallest key (second
\* newest unpin time, or the newest when unpinned fewer than two times),
\* the lowest frame id among equal keys; that frame leaves the candidate
\* set; with no candidate it reports no victim.
C23_LruKVictimSmallestKey == [][LruKVictimStep]_vars

\* the victim was unpinned twice and was chosen although a frame that is
\* still a candidate was last unpinned before the victim's newest unpin
C23_Witness ==
  /\ replacer.kind = "lruk" /\ last.op = "Victim" /\ last.found
  /\ Len(durable[last.fid]) >= 2
  /\ \E g \in Candidates :
       durable[g][Len(durable[g])] < durable[last.fid][Len(durable[last.fid])]

---------------------------------------------------------------------------
(* Claims settled on the table iterator *)

\* RID order: ascending (page_id, slot)
RidBefore(a, b) ==
  a.page_id < b.page_id \/ (a.page_id = b.page_id /\ a.slot < b.slot)

\* the rids the iterator stopped at so far
Yielded == {iter.out[i].rid : i \in 1..Len(iter.out)}

\* what the scan has yielded so far is right: ascending without repetition;
\* every row a live record with the tuple get(rid) returns; up to the
\* position of the iterator, and at End everywhere, no live record left out
ScanRight ==
  /\ \A i \in 1..Len(iter.out) - 1 :
       RidBefore(iter.out[i].rid, iter.out[i + 1].rid)
  /\ \A i \in 1..Len(iter.out) :
       /\ Seen(iter.out[i].rid).status = "OK"
       /\ Seen(iter.out[i].rid).bytes = iter.out[i].bytes
  /\ Yielded = IF iter.end THEN ScanRids
               ELSE {rid \in ScanRids :
                       rid = iter.cur.rid \/ RidBefore(rid, iter.cur.rid)}

ScanStep ==
  /\ iter'.started => ScanRight'
  /\ (iter.started /\ iter.end) => iter' = iter
  /\ (iter.started /\ ~iter.end)
       => (iter'.end \/ Len(iter'.out) = Len(iter.out) + 1)

\* C24 as claimed: with nothing else touching the heap, the scan from Begin
\* to End yields every live record exactly once, in ascending (page_id, slot)
\* order, never a tombstone, each tuple the one get(rid) returns; every
\* advance yields one more record or reaches End, and an advance at End stays
\* at End.
C24_ScanYieldsEveryLiveRecord == [][ScanStep]_vars

\* C24 with every system call succeeding
C24_NoFailure == [][io_failed' = 0 => ScanStep]_vars

\* a scan that reached End after yielding records of more than one page
C24_Witness ==
  /\ iter.started /\ iter.end /\ io_failed = 0
  /\ \E i, j \in 1..Len(iter.out) : iter.out[i].rid.page_id # iter.out[j].rid.page_id

\* the pin count of page pid: that of its frame, none when it is not resident
PinOf(pid) == IF pid \in DOMAIN table THEN frames[table[pid]].pin_count ELSE 0

\* C25: every TableHeap insert, update, erase and get, and every
\* TableIterator construction and advance, releases every pin it took, on
\* success and on every failure path: the pin count of every page after the
\* call is what it was before.
C25_PinsReleased == [][\A pid \in PageIds : PinOf(pid)' = PinOf(pid)]_vars

\* a scan that ran to End over resident and evicted pages, one call of the
\* run having hit a failed system call
C25_Witness ==
  /\ iter.started /\ iter.end /\ Len(iter.out) > 1
  /\ io_failed > 0
  /\ \E pid \in PageIds : pid < Len(disk) /\ pid \notin DOMAIN table

\* C33: find is complete: whenever some tracked page has recorded free bytes
\* of at least need, find(need) returns a page and not kInvalidPageId, also
\* when need or the free bytes equal a threshold.
C33_FindComplete ==
  (last.op = "Find" /\ \E q \in DOMAIN fsm.pid2free : fsm.pid2free[q] >= last.bytes)
    => last.pid # kInvalidPageId

\* find(need) with need a threshold returned a page whose free bytes are that
\* threshold, the only page that fits
C33_Witness ==
  /\ last.op = "Find" /\ last.bytes = Thresholds[1]
  /\ last.pid \in DOMAIN fsm.pid2free
  /\ \A q \in DOMAIN fsm.pid2free :
       fsm.pid2free[q] >= last.bytes <=> q = last.pid
  /\ fsm.pid2free[last.pid] = Thresholds[1]
  /\ Cardinality(DOMAIN fsm.pid2free) > 1

---------------------------------------------------------------------------
(* Claims settled on the rebuild of the free space manager *)

\* what the probe reports for page pid: the free_size of the page on disk,
\* 0 for a page that is not formatted, and 0 when its read failed
ProbeReports(pid, read_failed) ==
  {ProbePageFree(FsmProbeDisk(0), pid)} \cup (IF read_failed THEN {0} ELSE {})

RebuildStep ==
  last'.op = "Rebuild" =>
    /\ last'.status = (IF fsm.probe THEN "OK" ELSE "Unavailable")
    /\ last'.status = "Unavailable" => fsm' = fsm
    /\ last'.status = "OK" =>
         /\ DOMAIN fsm'.pid2free = 0..(Len(disk) - 1)
         /\ DOMAIN fsm'.pid2bin = 0..(Len(disk) - 1)
         /\ \A pid \in 0..(Len(disk) - 1) :
              /\ fsm'.pid2free[pid] \in ProbeReports(pid, io_failed' > io_failed)
              /\ fsm'.pid2bin[pid] = BinIndex(fsm'.pid2free[pid])
         /\ \A b \in DOMAIN fsm'.bins :
              fsm'.bins[b] = {pid \in 0..(Len(disk) - 1) : fsm'.pid2bin[pid] = b}

\* C26: after rebuild_from_segment returned OK the FSM tracks exactly the
\* pages 0 .. page_count - 1, each with the free bytes the probe reported and
\* in the bin of that value, and nothing tracked before survives; with no
\* probe registered it returns Unavailable and leaves the FSM as it was.
C26_RebuildTracksSegment == [][RebuildStep]_vars

\* a rebuild that returned OK and found one page in each of three bins
C26_Witness ==
  /\ last.op = "Rebuild" /\ last.status = "OK" /\ io_failed = 0
  /\ Cardinality({b \in DOMAIN fsm.bins : fsm.bins[b] # {}}) = 3

---------------------------------------------------------------------------
(* Claims settled on the segment manager *)

\* the page freed last among those not handed out again
LastPending == durable[CHOOSE i \in Pending(durable) : \A j \in Pending(durable) : j <= i].pid

AllocFreeStep ==
  /\ Len(disk') >= Len(disk)
  /\ last'.op = "Free" => Len(disk') = Len(disk)
  /\ last'.op = "Alloc" =>
       IF Pending(durable) # {}
       THEN last'.pid = LastPending /\ Len(disk') = Len(disk)
       ELSE IF io_failed' = io_failed
            THEN last'.pid = Len(disk) /\ Len(disk') = Len(disk) + 1
            ELSE last'.pid = kInvalidPageId /\ Len(disk') = Len(disk)

---------------------------------------------------------------------------
(* Claims settled on BufferPoolManager::NewPage *)

NewPageStep ==
  (last'.op = "NewPage" /\ last'.status = "OK") =>
    /\ last'.pid = Len(disk)
    /\ Len(disk') = last'.pid + 1
    /\ last'.pid \in DOMAIN table' /\ table'[last'.pid] = last'.fid
    /\ frames'[last'.fid] = [page_id |-> last'.pid, pin_count |-> 1,
                             dirty |-> FALSE, data |-> ZeroPage]
    /\ ~replacer'.present[last'.fid]
    /\ \A p \in DOMAIN table : p < last'.pid

\* C28 as claimed: a new_page that returned OK returns the page count of the
\* file at the call, leaves the page count at pid + 1 and pid in the page
\* table, in a zero-filled frame with pin count 1, clean and not a replacer
\* candidate; its pid is larger than that of every page the pool holds, so
\* successive calls return strictly increasing ids.
C28_NewPageExtendsFile == [][NewPageStep]_vars

\* C28 with every system call succeeding
C28_NoFailure == [][io_failed' = 0 => NewPageStep]_vars

\* a new_page that evicted a page to get its frame
C28_Witness ==
  /\ last.op = "NewPage" /\ last.status = "OK" /\ io_failed = 0
  /\ stats.evictions > 0 /\ Len(disk) = last.pid + 1

---------------------------------------------------------------------------
(* Claims settled on the slot SlottedPage::Insert takes *)

\* the tombstoned slots of the directory (slot ids)
Tombstones(p) == {i \in 0..(p.slot_count - 1) : p.slots[i + 1].len = 0}

\* free_size when the record is placed: that of the page, after Compact when
\* Insert ran it
FreeAtPlacing(p, compacted) == IF compacted THEN Compact(p).free_size ELSE p.free_size

InsertSlotStep ==
  (last'.op = "Insert" /\ last'.status = "OK") =>
    /\ pg'.slots[last'.slot + 1].len = last'.len
    /\ IF Tombstones(pg) # {}
       THEN /\ last'.slot \in Tombstones(pg)
            /\ \A i \in Tombstones(pg) : last'.slot <= i
            /\ pg'.slot_count = pg.slot_count
            /\ pg'.free_size = FreeAtPlacing(pg, last'.compacted) - last'.len
       ELSE /\ last'.slot = pg.slot_count
            /\ pg'.slot_count = pg.slot_count + 1
            /\ pg'.free_size = FreeAtPlacing(pg, last'.compacted) - last'.len - SlotSize

\* C29: insert places the record in the lowest-indexed tombstoned slot when
\* the directory has a tombstone, slot_count unchanged and only the record
\* bytes charged to free_size; with no tombstone it appends a slot whose id
\* is the old slot_count, slot_count grows by one and sizeof(Slot) is charged
\* as well.
C29_InsertReusesLowestTombstone == [][InsertSlotStep]_vars

\* an insert that took the lower of two tombstones
C29_Witness ==
  /\ last.op = "Insert" /\ last.status = "OK"
  /\ \E i \in Tombstones(pg) : last.slot < i

---------------------------------------------------------------------------
(* Claims settled on the space SlottedPage::Insert needs *)

RECURSIVE LensUpTo(_, _)
\* sum of the lengths of the first n directory entries (a tombstone has 0)
LensUpTo(p, n) == IF n = 0 THEN 0 ELSE p.slots[n].len + LensUpTo(p, n - 1)

\* what the page can hold once compacted
RoomCompacted(p) ==
  PageSize - HeaderSize - LensUpTo(p, p.slot_count) - p.slot_count * SlotSize

\* what an insert of len bytes needs: a new slot too when no tombstone exists
InsertNeed(p, len) == len + (IF Tombstones(p) # {} THEN 0 ELSE SlotSize)

InsertFitsStep ==
  (last'.op = "Insert" /\ last'.len > 0) =>
    /\ last'.status \in {"OK", "OutOfRange"}
    /\ last'.status = "OK" <=> RoomCompacted(pg) >= InsertNeed(pg, last'.len)
    /\ last'.status = "OutOfRange" =>
         /\ pg'.slot_count = pg.slot_count
         /\ \A slot \in 0..(pg.slot_count - 1) :
              SlottedGet(pg', slot) = SlottedGet(pg, slot)

\* C30: an insert of len > 0 bytes returns OK exactly when the page, once
\* compacted, has room for the record and, with no tombstone to reuse, for a
\* new slot; otherwise it returns OutOfRange, and then every live record reads
\* as before and slot_count is unchanged.
C30_InsertFailsOnlyWhenFull == [][InsertFitsStep]_vars

\* an insert that compacted the page, moving a record, and still found no room
C30_Witness ==
  /\ last.op = "Insert" /\ last.status = "OutOfRange" /\ last.moved
  /\ \E slot \in 0..(pg.slot_count - 1) : SlottedGet(pg, slot).status = "OK"

---------------------------------------------------------------------------
(* Claims settled on updates that return an error *)

\* every live record of the page reads after the call as it did before
PageRecordsKept ==
  \A slot \in 0..(pg.slot_count - 1) :
    SlottedGet(pg, slot).status = "OK" => SlottedGet(pg', slot) = SlottedGet(pg, slot)

\* every live record of the heap reads after the call as it did before
HeapRecordsKept ==
  \A rid \in HeapRids : Seen(rid).status = "OK" => Seen(rid)' = Seen(rid)

TargetLive == \E rid \in HeapRids : rid = last'.rid /\ Seen(rid).status = "OK"

\* C31 on the heap: a TableHeap update of a live record that returns an
\* error, its relocation insert having failed too, leaves the target record
\* and every other live record as it was.
C31_FailedHeapUpdateKeepsRecords ==
  [][(last'.op = "Update" /\ last'.status # "OK" /\ TargetLive)
       => HeapRecordsKept]_vars

\* a heap update of a live record that found no room in its page and whose
\* relocation insert failed
C31_HeapWitness ==
  /\ last.op = "Update" /\ last.status \notin {"OK", "NotFound"}
  /\ Seen(last.rid).status = "OK"
  /\ Len(Seen(last.rid).bytes) < U16(last.t.size)

---------------------------------------------------------------------------
(* Claims settled on SlottedPage::Erase *)

EraseStep ==
  last'.op = "Erase" =>
    IF last'.slot < pg.slot_count /\ pg.slots[last'.slot + 1].len # 0
    THEN /\ last'.status = "OK"
         /\ SlottedGet(pg', last'.slot).status = "NotFound"
         /\ pg'.slot_count = pg.slot_count
         /\ pg'.free_off = pg.free_off
         /\ pg'.free_size = pg.free_size
         /\ pg'.body = pg.body
         /\ \A i \in 1..pg.slot_count :
              i # last'.slot + 1 => pg'.slots[i] = pg.slots[i]
    ELSE /\ last'.status = "NotFound"
         /\ pg' = pg

\* C32: erase of a live slot returns OK and only tombstones that slot: get
\* returns NotFound afterwards, while slot_count, free_off, free_size, the
\* page bytes and every other slot's offset and length are unchanged; erase of
\* a tombstone or of a slot id >= slot_count returns NotFound and leaves the
\* page unchanged.
C32_EraseOnlyTombstones == [][EraseStep]_vars

\* an erase that tombstoned one of two live records
C32_Witness ==
  /\ last.op = "Erase" /\ last.status = "OK" /\ last.old_len > 0
  /\ \E slot \in 0..(pg.slot_count - 1) :
       slot # last.slot /\ SlottedGet(pg, slot).status = "OK"

---------------------------------------------------------------------------
(* Claims settled on the buffer pool's frame groups *)

OnFreeList(f) == \E i \in DOMAIN free_list : free_list[i] = f

FreeGroup ==
  {f \in FrameIds : OnFreeList(f) /\ ~Resident(f) /\ frames[f].pin_count = 0
                    /\ ~replacer.present[f]}

PinnedGroup ==
  {f \in FrameIds : ~OnFreeList(f) /\ Resident(f) /\ frames[f].pin_count > 0
                    /\ ~replacer.present[f]}

EvictableGroup ==
  {f \in FrameIds : ~OnFreeList(f) /\ Resident(f) /\ frames[f].pin_count = 0
                    /\ replacer.present[f]}

\* C36: every frame is in exactly one of the three groups: on the free list
\* (no page, pin count 0, not a candidate), pinned (resident, pin count > 0,
\* not a candidate), evictable (resident, pin count 0, a candidate of the
\* replacer); the free list and the two resident groups number num_frames.
C36_FramesPartitioned ==
  /\ FrameIds = FreeGroup \cup PinnedGroup \cup EvictableGroup
  /\ Len(free_list) + Cardinality(PinnedGroup) + Cardinality(EvictableGroup)
       = NumFrames

\* a frame is pinned and the other one is an eviction candidate, after an
\* eviction has taken place
C36_Witness ==
  /\ PinnedGroup # {} /\ EvictableGroup # {}
  /\ stats.evictions > 0

\* C36 with every system call succeeding
C36_NoFailure == io_failed = 0 => C36_FramesPartitioned

---------------------------------------------------------------------------
(* Claims settled on the flush counter *)

\* the dirty frames a call wrote back: the page writes of FlushFrame, each
\* right after its pre-flush hook, that reached the file
WrittenBack(log) ==
  Cardinality({i \in 2..Len(log) : log[i][1] = "write" /\ log[i - 1][1] = "hook"})

\* C37: the flushes counter of the statistics counts the dirty frames
\* written back with success, by flush, flush_all or an eviction: every call
\* adds to it the number of frames it wrote back, and nothing for a clean
\* frame or a failed write.
C37_FlushesCountWriteBacks ==
  [][stats'.flushes = stats.flushes + WrittenBack(last'.log)]_vars

\* C37 for every call but flush_all
C37_CountedOutsideFlushAll ==
  [][last'.op # "FlushAll"
       => stats'.flushes = stats.flushes + WrittenBack(last'.log)]_vars

---------------------------------------------------------------------------
(* Claims settled on TableHeap and the bytes on disk *)

\* frame f holds the bytes its page has in the file
MirrorsDisk(f) ==
  /\ frames[f].page_id < Len(disk)
  /\ frames[f].data = disk[frames[f].page_id + 1]

CleanUnpinned(f) ==
  Resident(f) /\ frames[f].pin_count = 0 /\ ~frames[f].dirty

\* C38: after any sequence of TableHeap operations in which no system call
\* failed, every resident frame with pin count 0 and dirty = false holds the
\* bytes its page has on disk.
C38_CleanFramesMirrorDisk ==
  io_failed = 0 => \A f \in FrameIds : CleanUnpinned(f) => MirrorsDisk(f)

\* an insert has returned a status other than OK
InsertFailedStep == last'.op = "Insert" /\ last'.status # "OK"

\* no record is live after the step that was not live before it
NoNewLiveRecord ==
  \A rid \in HeapRids : Seen(rid)'.status = "OK" => Seen(rid).status = "OK"

\* C39: an insert that returns a status other than OK leaves the page count
\* of the segment file as it was, and no record live that was not live
\* before the call.
C39_FailedInsertBounded ==
  [][InsertFailedStep => (Len(disk') = Len(disk) /\ NoNewLiveRecord)]_vars

\* C39 for the records alone
C39_FailedInsertAddsNoRecord ==
  [][InsertFailedStep => NoNewLiveRecord]_vars

---------------------------------------------------------------------------
(* Claims settled on the three structures of the FreeSpaceManager *)

RECURSIVE SumBins(_, _)
\* the sizes v[0] .. v[b] added up
SumBins(v, b) == IF b < 0 THEN 0 ELSE v[b] + SumBins(v, b - 1)

\* the bins, pid2bin and pid2free describe the same pages
FsmAgree ==
  /\ DOMAIN fsm.pid2bin = DOMAIN fsm.pid2free
  /\ \A pid \in DOMAIN fsm.pid2bin :
       /\ fsm.pid2bin[pid] = BinIndex(fsm.pid2free[pid])
       /\ \A b \in DOMAIN fsm.bins : pid \in fsm.bins[b] <=> b = fsm.pid2bin[pid]
  /\ \A b \in DOMAIN fsm.bins : fsm.bins[b] \subseteq DOMAIN fsm.pid2bin
  /\ TotalTrackedPages(fsm) = SumBins(BinSizes(fsm), Len(Thresholds))

\* Update(pid, free) tracks pid with free, and leaves every other page as it was
UpsertStep ==
  last'.op = "Update"
    => /\ DOMAIN fsm'.pid2free = DOMAIN fsm.pid2free \cup {last'.pid}
       /\ fsm'.pid2free[last'.pid] = last'.bytes
       /\ \A q \in DOMAIN fsm.pid2free \ {last'.pid} :
            fsm'.pid2free[q] = fsm.pid2free[q]

\* Remove of a page that is not tracked changes nothing; of a tracked page,
\* it drops that page alone
RemoveStep ==
  last'.op = "Remove"
    => /\ last'.pid \notin DOMAIN fsm.pid2bin => fsm' = fsm
       /\ DOMAIN fsm'.pid2free = DOMAIN fsm.pid2free \ {last'.pid}
       /\ \A q \in DOMAIN fsm'.pid2free : fsm'.pid2free[q] = fsm.pid2free[q]

\* C40: after any sequence of update, remove and rebuild_from_segment the
\* three structures agree: pid2bin and pid2free have the same keys, every
\* tracked page is in exactly one bin, that of its recorded free bytes, no
\* bin holds an untracked page, and total_tracked is the sum of bin_sizes;
\* update is an upsert and remove of an untracked page does nothing.
C40_FsmStructuresAgree ==
  /\ []FsmAgree
  /\ [][UpsertStep /\ RemoveStep]_vars

\* an update has acted on a manager that has its probe and tracks every page
\* id, with two bins in use and the updated page sharing its bin
C40_Witness ==
  /\ last.op = "Update"
  /\ fsm.probe
  /\ Cardinality(DOMAIN fsm.pid2bin) = MaxPages + 1
  /\ Cardinality({b \in DOMAIN fsm.bins : fsm.bins[b] # {}}) >= 2
  /\ \E q \in DOMAIN fsm.pid2bin : q # last.pid /\ fsm.pid2bin[q] = fsm.pid2bin[last.pid]

---------------------------------------------------------------------------
(* Claims settled on the segment manager's mutex *)

\* thread T is inside a call of AllocatePage
InAllocate(T) == last[T].op = "AllocatePage" /\ last[T].pc # "idle"

\* thread T's AllocatePage has returned
AllocateReturned(T) == last[T].op = "AllocatePage" /\ last[T].pc = "idle"

\* C35: every allocate_page call returns to its caller, also for a segment
\* never passed to ensure_segment, which it creates; the page id it returns
\* is valid unless a system call failed.
C35_AllocateReturns ==
  /\ \A T \in Callers : InAllocate(T) ~> AllocateReturned(T)
  /\ \A T \in Callers :
       [](AllocateReturned(T) /\ last[T].pid = kInvalidPageId => last[T].failed)

\* what the code keeps: allocate_page returns when its segment exists
C35_ReturnsForKnownSegment ==
  \A T \in Callers :
    (InAllocate(T) /\ last[T].pc = "body" /\ last[T].seg \in DOMAIN segs
       /\ (mu = T))
      ~> (AllocateReturned(T) \/ \E U \in Callers : last[U].pc = "blocked")

=============================================================================
